---- MODULE Spec2Model ----
(***************************************************************************)
(* LiveStreamingTranscription (React component): the microphone/WebSocket  *)
(* session lifecycle and the aggregation of upstream transcript events.    *)
(*                                                                         *)
(* Every call of startStreaming is a "session" s: it owns the objects that *)
(* call creates (MediaStream, AudioContext, ScriptProcessor, WebSocket)    *)
(* and the closures installed on them.  The component's refs hold at most  *)
(* one object of each kind.                                                *)
(*                                                                         *)
(* Texts are sequences of characters; <<>> is the empty string.  A         *)
(* transcript entry's timestamp (display only) is not modelled.            *)
(***************************************************************************)
EXTENDS Integers, Sequences, FiniteSets, TLC

\* ---- bounds -------------------------------------------------------------
MaxSessions   == 2   \* calls of startStreaming in one behaviour
MaxBlocks     == 1   \* onaudioprocess callbacks in one behaviour
MaxCompleted  == 2   \* completed events between two clearTranscripts
MaxPartialLen == 1   \* characters accumulated in partialTranscript
MaxAudioBlocks == 2  \* onaudioprocess callbacks in one behaviour of SpecAudio
SampleScale   == 2   \* the integer x stands for the Float32 sample x / SampleScale
MaxSegments   == 2   \* segments of a batch response with varying times
MaxLabelled   == 5   \* segments of a batch response with varying labels only
MaxRecordings == 2   \* calls of startRecording
MaxChunks     == 2   \* non-empty blobs the MediaRecorders deliver, all together

Recordings == 1..MaxRecordings
Sessions == 1..MaxSessions
Null     == 0        \* a ref holding null

\* ---- values -------------------------------------------------------------
Texts   == {<<>>, <<"a">>, <<"b">>}   \* payload of delta / transcript / text
ItemIds == {0, 7}                     \* item_id / response_id; 0 = absent (falsy)
Clock   == {100, 101}                 \* values Date.now() may return

NoError       == "null"
ConnectFailed == "Failed to connect to server"
MicFailed     == "Failed to access microphone"
ServerMessage == "server error"

InputDelta     == "conversation.item.input_audio_transcription.delta"
InputCompleted == "conversation.item.input_audio_transcription.completed"
TextDelta      == "response.text.delta"
TextDone       == "response.text.done"
AudioDelta     == "response.audio_transcript.delta"
AudioDone      == "response.audio_transcript.done"
ErrorEvent     == "error"
SessionCreated == "session.created"
SessionUpdated == "session.updated"
UnknownEvent   == "input_audio_buffer.speech_started"
Malformed      == "not json"

DeltaTypes     == {InputDelta, TextDelta, AudioDelta}
CompletedTypes == {InputCompleted, TextDone, AudioDone}
ReadyTypes     == {SessionCreated, SessionUpdated}
DroppedTypes   == {UnknownEvent, Malformed}
OtherTypes     == {ErrorEvent} \cup DroppedTypes \cup ReadyTypes

\* The messages the server may deliver: [type, text, id].
Events ==
  [type : DeltaTypes, text : Texts, id : {0}]
    \cup [type : CompletedTypes, text : Texts, id : ItemIds]
    \cup [type : OtherTypes, text : {<<>>}, id : {0}]

\* The speaker channel an event type belongs to.
Channel(type) == IF type \in {InputDelta, InputCompleted} THEN "caller" ELSE "assistant"

VARIABLES
  isStreaming,        \* useState(false)
  transcripts,        \* useState([]): sequence of [id, speaker, text]
  partialTranscript,  \* useState("")
  error,              \* useState(null)
  status,             \* useState("Ready")
  wsRef,              \* useRef(null): session whose WebSocket it holds, or Null
  streamRef,          \* useRef(null)
  audioContextRef,    \* useRef(null)
  processorRef,       \* useRef(null)
  mounted,            \* the component instance is mounted
  sess,               \* per startStreaming call: the objects it created
  nextSession,        \* number of startStreaming calls so far, plus one
  partialChan,        \* history: channel of the delta each character of partialTranscript came from
  nCompleted,         \* history: completed events handled since the last clearTranscripts
  completedTexts,     \* history: the final texts of those of them that carried text, in order
  finalDiffered,      \* history: one of them arrived over accumulated deltas that differ from its text
  replay,             \* two runs of the ws.onmessage handler over one event list, each from fresh state
  loading,            \* FileTranscription: useState(false)
  result,             \* FileTranscription: useState(null)
  fileError,          \* FileTranscription: useState(null), its error
  mergeSpeakers,      \* FileTranscription: useState(true)
  upload,             \* FileTranscription: the last handleFileUpload call, awaiting fetch or done
  ident,              \* FileTranscription: the speaker identification form
  diarized,           \* history: the segments the server diarized for the response result was made from
  response,           \* history: data.speakers of the response result was made from
  waveform,           \* the Waveform LiveStreamingTranscription renders: its last effect run
  rec,                \* RecordTranscription: its state and refs
  recorders,          \* per startRecording call: the MediaRecorder and stream it created
  posts               \* history: the recordings a POST to /transcribe was made for

vars == <<isStreaming, transcripts, partialTranscript, error, status, wsRef, streamRef,
          audioContextRef, processorRef, mounted, sess, nextSession, partialChan,
          nCompleted, completedTexts, finalDiffered, replay,
          loading, result, fileError, mergeSpeakers, upload, ident, diarized, response,
          waveform, rec, recorders, posts>>

refs  == <<wsRef, streamRef, audioContextRef, processorRef>>
hist  == <<nCompleted, completedTexts, finalDiffered>>
texts == <<transcripts, partialTranscript, partialChan, hist>>
batch == <<loading, result, fileError, mergeSpeakers, upload, ident, diarized, response>>
aux   == <<replay, batch, waveform, rec, recorders, posts>>
live  == <<isStreaming, error, status, refs, mounted, sess, nextSession, texts>>

\* A session before startStreaming has been called for it.
NoSess ==
  [call |-> "idle",        \* idle | awaiting (getUserMedia pending) | done
   closureIsStreaming |-> FALSE, \* isStreaming of the render whose startStreaming ran
   ws |-> "none",          \* none | CONNECTING | OPEN | CLOSING | CLOSED
   opened |-> FALSE,       \* the open event has fired
   closeEvt |-> FALSE,     \* the close event has fired
   ready |-> FALSE,        \* a session.created / session.updated message was handled
   tracks |-> "none",      \* none | live | stopped
   ctx |-> "none",         \* none | running | closed
   proc |-> "none",        \* none | created | connected | disconnected
   blocks |-> 0,           \* onaudioprocess callbacks
   sent |-> 0,             \* frames passed to ws.send
   clone |-> "none",       \* tracks of the stream.clone() a Waveform made: none | live | stopped
   dropped |-> FALSE,      \* history: a message of no handled type, or not JSON, has arrived
   fed |-> <<>>,           \* history: the input blocks, and whether the socket was OPEN on arrival
   frames |-> <<>>]        \* the frames passed to ws.send, in order

\* The Waveform after its first effect run: inactive, no stream, no
\* AudioContext of its own.
NoWaveform == [isActive |-> FALSE, stream |-> Null, ctx |-> "none"]

\* RecordTranscription after construction (RecordTranscription.jsx, lines
\* 6-17).  readyTimer: a setTimeout(() => setStatus("Ready"), 3000) is pending.
NoRec ==
  [isRecording |-> FALSE, transcripts |-> <<>>, error |-> NoError, status |-> "Ready",
   loading |-> FALSE, mediaRecorderRef |-> Null, audioChunksRef |-> <<>>,
   streamRef |-> Null, timerRef |-> Null, readyTimer |-> FALSE, nextRecording |-> 1,
   delivered |-> 0]

\* FileTranscription before any upload: result is null, no call is pending.
NoResult == [set |-> FALSE, transcripts |-> <<>>, summary |-> "", fullText |-> "",
             duration |-> 0, speakerCount |-> 0]
NoUpload ==
  [pending |-> FALSE, merge_speakers |-> FALSE, endpoint |-> "none",
   speaker_names |-> <<>>, identification_mode |-> "none", reference_files |-> <<>>]

\* The identification form before any input (part_002, lines 66-71).  The text
\* of the names field is the sequence of its parts between commas; the empty
\* text has the one part <<>>.
NoIdent ==
  [useAdvanced |-> FALSE, speakerNames |-> << <<>> >>, identificationMode |-> "rename",
   referenceFiles |-> <<>>, fileMapping |-> <<>>]

\* The handler's state before the first event: useState([]), useState("").
FreshRun == [transcripts |-> <<>>, partialTranscript |-> <<>>]

Init ==
  /\ isStreaming = FALSE
  /\ transcripts = <<>>
  /\ partialTranscript = <<>>
  /\ error = NoError
  /\ status = "Ready"
  /\ wsRef = Null /\ streamRef = Null /\ audioContextRef = Null /\ processorRef = Null
  /\ mounted = TRUE
  /\ sess = [s \in Sessions |-> NoSess]
  /\ nextSession = 1
  /\ partialChan = <<>>
  /\ nCompleted = 0
  /\ completedTexts = <<>>
  /\ finalDiffered = FALSE
  /\ replay = [a |-> FreshRun, b |-> FreshRun, carried |-> <<>>]
  /\ loading = FALSE
  /\ result = NoResult
  /\ fileError = NoError
  /\ mergeSpeakers = TRUE
  /\ upload = NoUpload
  /\ ident = NoIdent
  /\ diarized = <<>>
  /\ response = <<>>
  /\ waveform = NoWaveform
  /\ rec = NoRec
  /\ recorders = [r \in Recordings |->
       [call |-> "idle",      \* idle | awaiting (getUserMedia pending) | done
        state |-> "none",     \* MediaRecorder.state: none | recording | inactive
        onstop |-> "none",    \* onstop: none | due | waiting (200 ms) | rejected | fetching | done
        tracks |-> "none",    \* none | live | stopped
        timer |-> "none",     \* the setInterval of the call: none | running | cleared
        produced |-> <<>>]]   \* history: the non-empty chunks the MediaRecorder delivered,
                              \* kept until its onstop has dealt with them
  /\ posts = {}

\* A state setter called on an unmounted component has no effect.
SetState(cur, new) == IF mounted THEN new ELSE cur

\* ---- stopStreaming (lines 174-203) --------------------------------------
\* WebSocket.close(): starts the closing handshake of a socket that is
\* connecting or open, and does nothing to one that is closing or closed.
WsAfterClose(w) == IF w \in {"CONNECTING", "OPEN"} THEN "CLOSING" ELSE w

\* The objects after stopStreaming has closed / disconnected / stopped the
\* ones the four refs hold; ss is the objects' state when it is called.
ReleaseRefs(ss) ==
  [s \in Sessions |->
    [ss[s] EXCEPT
      !.ws     = IF s = wsRef THEN WsAfterClose(@) ELSE @,
      !.proc   = IF s = processorRef THEN "disconnected" ELSE @,
      !.ctx    = IF s = audioContextRef THEN "closed" ELSE @,
      !.tracks = IF s = streamRef THEN "stopped" ELSE @]]

\* stopStreaming(), called with the objects in state ss.  It leaves error
\* and transcripts to its caller.
stopStreaming(ss) ==
  /\ sess' = ReleaseRefs(ss)
  /\ wsRef' = Null /\ processorRef' = Null /\ audioContextRef' = Null /\ streamRef' = Null
  /\ isStreaming' = SetState(isStreaming, FALSE)
  /\ partialTranscript' = SetState(partialTranscript, <<>>)
  /\ partialChan' = SetState(partialChan, <<>>)
  /\ status' = SetState(status, "Stopped")

\* ---- startStreaming (lines 17-172) --------------------------------------
\* The button calls startStreaming while isStreaming is false (line 243).
\* First half, up to the await of getUserMedia.
StartStreaming ==
  /\ mounted /\ ~isStreaming
  /\ nextSession \in Sessions
  /\ sess' = [sess EXCEPT ![nextSession] =
                [@ EXCEPT !.call = "awaiting", !.closureIsStreaming = isStreaming]]
  /\ nextSession' = nextSession + 1
  /\ error' = NoError
  /\ status' = "Connecting to server..."
  /\ UNCHANGED <<isStreaming, refs, mounted, texts, aux>>

\* getUserMedia rejects: the catch block.
GetUserMediaReject(s) ==
  /\ sess[s].call = "awaiting"
  /\ sess' = [sess EXCEPT ![s] = [@ EXCEPT !.call = "done"]]
  /\ error' = SetState(error, MicFailed)
  /\ status' = SetState(status, "Error")
  /\ UNCHANGED <<isStreaming, refs, mounted, nextSession, texts, aux>>

\* getUserMedia resolves and the rest of startStreaming runs to its end.
GetUserMediaResolve(s) ==
  /\ sess[s].call = "awaiting"
  /\ sess' = [sess EXCEPT ![s] =
                [@ EXCEPT !.call = "done", !.tracks = "live", !.ctx = "running",
                          !.proc = "connected", !.ws = "CONNECTING"]]
  /\ streamRef' = s /\ audioContextRef' = s /\ processorRef' = s /\ wsRef' = s
  /\ UNCHANGED <<isStreaming, error, status, mounted, nextSession, texts, aux>>

\* getUserMedia resolves and a later constructor throws: the objects made
\* before the throw exist and their refs are set, then the catch block runs.
\*   at = "context": new AudioContext throws (line 34)
\*   at = "socket":  new WebSocket throws (line 47)
StartStreamingThrows(s, at) ==
  /\ sess[s].call = "awaiting"
  /\ streamRef' = s
  /\ IF at = "context"
       THEN /\ sess' = [sess EXCEPT ![s] = [@ EXCEPT !.call = "done", !.tracks = "live"]]
            /\ UNCHANGED <<audioContextRef, processorRef>>
       ELSE /\ sess' = [sess EXCEPT ![s] = [@ EXCEPT !.call = "done", !.tracks = "live",
                                                    !.ctx = "running", !.proc = "created"]]
            /\ audioContextRef' = s /\ processorRef' = s
  /\ error' = SetState(error, MicFailed)
  /\ status' = SetState(status, "Error")
  /\ UNCHANGED <<isStreaming, wsRef, mounted, nextSession, texts, aux>>

\* ---- WebSocket events ---------------------------------------------------
\* ws.onopen (lines 51-55).
WsOpen(s) ==
  /\ sess[s].ws = "CONNECTING"
  /\ sess' = [sess EXCEPT ![s] = [@ EXCEPT !.ws = "OPEN", !.opened = TRUE]]
  /\ status' = SetState(status, "Live")
  /\ isStreaming' = SetState(isStreaming, TRUE)
  /\ UNCHANGED <<error, refs, mounted, nextSession, texts, aux>>

\* ws.onerror (lines 57-62): the connection failed (while connecting, while
\* open, or closed by close() before it was established); the socket is
\* CLOSED when the handler runs, and the close event follows.
WsError(s) ==
  /\ \/ sess[s].ws \in {"CONNECTING", "OPEN"}
     \/ sess[s].ws = "CLOSING" /\ ~sess[s].opened
  /\ error' = SetState(error, ConnectFailed)
  /\ stopStreaming([sess EXCEPT ![s] = [@ EXCEPT !.ws = "CLOSED"]])
  /\ UNCHANGED <<transcripts, hist, mounted, nextSession, aux>>

\* ws.onclose (lines 64-69): the server closed an open socket, the closing
\* handshake finished, or the connection failed.  isStreaming is the value
\* of the render whose startStreaming installed the handler.
WsClose(s) ==
  /\ ~sess[s].closeEvt
  /\ \/ sess[s].ws = "OPEN"
     \/ sess[s].ws = "CLOSING" /\ sess[s].opened
     \/ sess[s].ws = "CLOSED"
  /\ sess' = [sess EXCEPT ![s] = [@ EXCEPT !.ws = "CLOSED", !.closeEvt = TRUE]]
  /\ status' = IF sess[s].closureIsStreaming THEN SetState(status, "Disconnected") ELSE status
  /\ UNCHANGED <<isStreaming, error, refs, mounted, nextSession, texts, aux>>

\* ---- ws.onmessage (lines 71-144) ----------------------------------------
\* The entry a completed event appends: id is item_id / response_id, or
\* Date.now() (now) when that is absent.
\* data.item_id || Date.now(): an absent id is falsy.
EntryId_Clock(ev, now) == now

EntryId(ev, now) == IF ev.id # 0 THEN ev.id ELSE now

NewTranscript_Concat(ev, now) ==
  [id      |-> EntryId(ev, now),
   speaker |-> IF ev.type = InputCompleted THEN "You" ELSE "Assistant",
   text    |-> partialTranscript \o ev.text]

NewTranscript(ev, now) ==
  [id      |-> EntryId(ev, now),
   speaker |-> IF ev.type = InputCompleted THEN "You" ELSE "Assistant",
   text    |-> ev.text]

\* if (finalText): the empty string is falsy (lines 87, 105, 123).
HasText_Always(finalText) == TRUE

HasText(finalText) == finalText # <<>>

\* Date.now() is evaluated only for a completed event with text and no id.
ReadsClock(ev) == ev.type \in CompletedTypes /\ ev.id = 0 /\ ev.text # <<>>

\* The handler's state updates, as functions of the previous state.
\* setTranscripts((prev) => [...prev, newTranscript]) inside if (finalText).
TranscriptsAfter_Prepend(prev, ev, now) ==
  IF ev.type \in CompletedTypes /\ HasText(ev.text)
    THEN <<NewTranscript(ev, now)>> \o prev ELSE prev

TranscriptsAfter(prev, ev, now) ==
  IF ev.type \in CompletedTypes /\ HasText(ev.text)
    THEN Append(prev, NewTranscript(ev, now)) ELSE prev

\* setPartialTranscript((prev) => prev + (data.delta || "")) for a delta,
\* setPartialTranscript("") inside if (finalText) for a completed event.
PartialAfter_ErrorClears(prev, ev) ==
  CASE ev.type \in DeltaTypes -> prev \o ev.text
    [] ev.type \in CompletedTypes /\ HasText(ev.text) -> <<>>
    [] ev.type = ErrorEvent -> <<>>
    [] OTHER -> prev

PartialAfter(prev, ev) ==
  CASE ev.type \in DeltaTypes -> prev \o ev.text
    [] ev.type \in CompletedTypes /\ HasText(ev.text) -> <<>>
    [] OTHER -> prev

\* setError(data.message) for an error event.  session.created and
\* session.updated are logged; an unknown type matches no branch;
\* JSON.parse of a malformed message throws into the catch block, which
\* logs.
ErrorAfter_CatchSurfaces(prev, ev) ==
  IF ev.type \in {ErrorEvent, Malformed} THEN ServerMessage ELSE prev

ErrorAfter(prev, ev) == IF ev.type = ErrorEvent THEN ServerMessage ELSE prev

\* now is the value Date.now() returns if the handler evaluates it.
WsMessage(s, ev, now) ==
  /\ sess[s].ws = "OPEN"
  /\ ev.type \in DeltaTypes => Len(partialTranscript) + Len(ev.text) <= MaxPartialLen
  /\ ev.type \in CompletedTypes => nCompleted < MaxCompleted
  /\ ReadsClock(ev) \/ now = 100
  /\ sess' = [sess EXCEPT ![s] = [@ EXCEPT !.ready = @ \/ ev.type \in ReadyTypes,
                                           !.dropped = @ \/ ev.type \in DroppedTypes]]
  /\ transcripts' = SetState(transcripts, TranscriptsAfter(transcripts, ev, now))
  /\ partialTranscript' = SetState(partialTranscript, PartialAfter(partialTranscript, ev))
  /\ error' = SetState(error, ErrorAfter(error, ev))
  /\ CASE ev.type \in DeltaTypes ->
            /\ partialChan' = SetState(partialChan,
                 partialChan \o [i \in 1..Len(ev.text) |-> Channel(ev.type)])
            /\ UNCHANGED hist
       [] ev.type \in CompletedTypes ->
            /\ nCompleted' = SetState(nCompleted, nCompleted + 1)
            /\ completedTexts' = SetState(completedTexts,
                 IF ev.text # <<>> THEN Append(completedTexts, ev.text) ELSE completedTexts)
            /\ finalDiffered' = SetState(finalDiffered,
                 finalDiffered \/ (ev.text # <<>> /\ partialTranscript \notin {<<>>, ev.text}))
            /\ partialChan' = SetState(partialChan,
                 IF HasText(ev.text) THEN <<>> ELSE partialChan)
       [] OTHER -> UNCHANGED <<partialChan, hist>>
  /\ UNCHANGED <<isStreaming, status, refs, mounted, nextSession, aux>>

\* ---- processor.onaudioprocess (lines 147-161) ---------------------------
\* if (ws.readyState === WebSocket.OPEN) (line 148).
CanSend_Always(readyState) == TRUE

CanSend(readyState) == readyState = "OPEN"

\* The blocks delivered so far to the sessions s..MaxSessions.
RECURSIVE BlocksFrom(_)
BlocksFrom(s) == IF s \in Sessions THEN sess[s].blocks + BlocksFrom(s + 1) ELSE 0

\* -- Float32 to PCM16 (lines 151-156) --
HalfRange  == 32768   \* 0x8000
MaxInt16   == 32767   \* 0x7fff
Int16Range == 65536   \* an Int16Array element keeps the low 16 bits

\* The samples a block may carry: -2.0 .. 2.0 in steps of 1 / SampleScale.
Samples == (0 - 2 * SampleScale)..(2 * SampleScale)

\* Math.max(-1, Math.min(1, x)) on the scaled sample.
Clamp_None(x) == x

Clamp(x) == IF x < 0 - SampleScale THEN 0 - SampleScale
            ELSE IF x > SampleScale THEN SampleScale ELSE x

\* The number n / d (d > 0) with its fraction dropped, as the conversion of
\* a Number to an integer does.
Truncate(n, d) == IF n >= 0 THEN n \div d ELSE 0 - ((0 - n) \div d)

\* Storing the integer v into an Int16Array element.
ToInt16(v) == ((v + HalfRange) % Int16Range) - HalfRange

\* pcm16[i] for float32[i] = x / SampleScale.
Pcm16(x) ==
  LET s == Clamp(x)
  IN  ToInt16(Truncate(IF s < 0 THEN s * HalfRange ELSE s * MaxInt16, SampleScale))

\* new Int16Array(float32.length), filled by the loop.
Encode_Short(float32) == [i \in 1..(Len(float32) - 1) |-> Pcm16(float32[i])]

Encode(float32) == [i \in 1..Len(float32) |-> Pcm16(float32[i])]

\* ws.send(pcm16.buffer): the frame follows the ones sent before it.
Send_First(frames, pcm16) == <<pcm16>> \o frames

Send(frames, pcm16) == Append(frames, pcm16)

\* The handler for one input block float32.  The ScriptProcessor delivers a
\* block while it is connected in a running context; the block is encoded
\* and sent when the session's socket is OPEN, and otherwise nothing is done.
OnAudioProcess(s, float32) ==
  /\ sess[s].proc = "connected" /\ sess[s].ctx = "running"
  /\ sess' = [sess EXCEPT ![s] =
                [@ EXCEPT !.blocks = @ + 1,
                          !.fed = Append(@, [block |-> float32, open |-> sess[s].ws = "OPEN"]),
                          !.sent = IF CanSend(sess[s].ws) THEN @ + 1 ELSE @,
                          !.frames = IF CanSend(sess[s].ws)
                                       THEN Send(@, Encode(float32)) ELSE @]]
  /\ UNCHANGED <<isStreaming, error, status, refs, mounted, nextSession, texts, aux>>

\* A block of silence.
QuietBlock == <<0>>

AudioProcess(s) ==
  /\ BlocksFrom(1) < MaxBlocks
  /\ OnAudioProcess(s, QuietBlock)

\* ---- user actions -------------------------------------------------------
\* The button calls stopStreaming while isStreaming is true (line 243).
StopStreaming ==
  /\ mounted /\ isStreaming
  /\ stopStreaming(sess)
  /\ UNCHANGED <<transcripts, hist, error, mounted, nextSession, aux>>

\* clearTranscripts (lines 205-209); its button is rendered while there are
\* transcripts and isStreaming is false (line 249).
ClearTranscripts ==
  /\ mounted /\ Len(transcripts) > 0 /\ ~isStreaming
  /\ transcripts' = <<>>
  /\ partialTranscript' = <<>>
  /\ partialChan' = <<>>
  /\ nCompleted' = 0
  /\ completedTexts' = <<>>
  /\ finalDiffered' = FALSE
  /\ status' = "Ready"
  /\ UNCHANGED <<isStreaming, error, refs, mounted, sess, nextSession, aux>>

\* The value of isStreaming in the closure of the cleanup effect: the effect
\* has no dependencies, so the cleanup of the first render is the one that
\* runs, and it sees useState's initial value.
CleanupIsStreaming == FALSE

\* The component is unmounted (App renders only the active tab): the effect
\* cleanup of lines 212-218 runs.
Unmount ==
  /\ mounted
  /\ mounted' = FALSE
  /\ IF CleanupIsStreaming
       THEN stopStreaming(sess)
       ELSE UNCHANGED <<sess, refs, isStreaming, partialTranscript, partialChan, status>>
  /\ UNCHANGED <<transcripts, hist, error, nextSession, aux>>

Next ==
  \/ StartStreaming
  \/ \E s \in Sessions : GetUserMediaReject(s)
  \/ \E s \in Sessions : GetUserMediaResolve(s)
  \/ \E s \in Sessions, at \in {"context", "socket"} : StartStreamingThrows(s, at)
  \/ \E s \in Sessions : WsOpen(s)
  \/ \E s \in Sessions : WsError(s)
  \/ \E s \in Sessions : WsClose(s)
  \/ \E s \in Sessions, ev \in Events, now \in Clock : WsMessage(s, ev, now)
  \/ \E s \in Sessions : AudioProcess(s)
  \/ StopStreaming
  \/ ClearTranscripts
  \/ Unmount

Spec == Init /\ [][Next]_vars

\* ---- the session lifecycle ----------------------------------------------
\* Every operation; of the messages, those that carry no transcript text.
SessionEvents == [type : {ErrorEvent} \cup ReadyTypes, text : {<<>>}, id : {0}]

NextSession ==
  \/ StartStreaming
  \/ \E s \in Sessions : GetUserMediaReject(s)
  \/ \E s \in Sessions : GetUserMediaResolve(s)
  \/ \E s \in Sessions, at \in {"context", "socket"} : StartStreamingThrows(s, at)
  \/ \E s \in Sessions : WsOpen(s)
  \/ \E s \in Sessions : WsError(s)
  \/ \E s \in Sessions : WsClose(s)
  \/ \E s \in Sessions, ev \in SessionEvents : WsMessage(s, ev, 100)
  \/ \E s \in Sessions : AudioProcess(s)
  \/ StopStreaming
  \/ Unmount

SpecSession == Init /\ [][NextSession]_vars

\* ---- the transcript aggregation -----------------------------------------
\* Every message, delivered to one session that starts, opens, fails, closes
\* and is stopped, and clearTranscripts.  The clock stands still; SpecReplay
\* lets it run.
NextText ==
  \/ StartStreaming /\ \A s \in Sessions : sess[s].call = "idle"
  \/ \E s \in Sessions : GetUserMediaResolve(s)
  \/ \E s \in Sessions : WsOpen(s)
  \/ \E s \in Sessions : WsError(s)
  \/ \E s \in Sessions : WsClose(s)
  \/ \E s \in Sessions, ev \in Events : WsMessage(s, ev, 100)
  \/ StopStreaming
  \/ ClearTranscripts

SpecText == Init /\ [][NextText]_vars

\* ---- JavaScript values ---------------------------------------------------
\* A value of a field that holds a number, a string, null or nothing.
JsUndefined == [kind |-> "undefined", n |-> 0, s |-> ""]
JsNull      == [kind |-> "null", n |-> 0, s |-> ""]
JsNum(n)    == [kind |-> "number", n |-> n, s |-> ""]
JsStr(s)    == [kind |-> "string", n |-> 0, s |-> s]

\* 0, "", null and undefined are falsy.
Truthy(v) == (v.kind = "number" /\ v.n # 0) \/ (v.kind = "string" /\ v.s # "")

\* a || b
Or(a, b) == IF Truthy(a) THEN a ELSE b

\* ---- TranscriptDisplay (part_004) ---------------------------------------
\* formatTimestamp(seconds), lines 12-21.
Pad2(n) == IF n < 10 THEN "0" \o ToString(n) ELSE ToString(n)

formatTimestamp(seconds) ==
  IF ~Truthy(seconds) /\ seconds # JsNum(0) THEN JsNull
  ELSE IF seconds.kind = "string" THEN seconds
  ELSE JsStr(ToString(seconds.n \div 60) \o ":" \o Pad2(seconds.n % 60))

\* The group object built from one item (lines 27-35, 46-54, 66-74).
NewGroup(item) ==
  [id         |-> item.id,
   speaker    |-> item.speaker,
   text       |-> item.text,
   start_time |-> Or(item.timestamp, item.start_time),
   end_time   |-> Or(item.end, item.end_time),
   isPartial  |-> item.isPartial,
   segments   |-> <<item>>]

\* One iteration of the loop (lines 37-76).  Group objects live in heap;
\* grouped and current hold references (indices) to them, so that a group
\* pushed to grouped and changed afterwards is seen changed.
GroupStep(st, item) ==
  IF item.isPartial
    THEN [heap    |-> Append(st.heap, NewGroup(item)),
          grouped |-> (IF Len(st.heap[st.current].segments) > 0
                         THEN Append(st.grouped, st.current) ELSE st.grouped)
                        \o <<Len(st.heap) + 1>>,
          current |-> st.current]
  ELSE IF item.speaker = st.heap[st.current].speaker /\ ~st.heap[st.current].isPartial
    THEN [st EXCEPT !.heap[st.current] =
            [@ EXCEPT !.text = @ \o <<" ">> \o item.text,
                      !.end_time = Or(item.end, item.end_time),
                      !.segments = Append(@, item)]]
  ELSE [heap    |-> Append(st.heap, NewGroup(item)),
        grouped |-> Append(st.grouped, st.current),
        current |-> Len(st.heap) + 1]

RECURSIVE GroupLoop(_, _, _)
GroupLoop(st, list, i) ==
  IF i > Len(list) THEN st ELSE GroupLoop(GroupStep(st, list[i]), list, i + 1)

\* groupConsecutiveSpeakers(transcripts), lines 23-83.
groupConsecutiveSpeakers(list) ==
  IF list = <<>> THEN <<>>
  ELSE LET st   == GroupLoop([heap |-> <<NewGroup(list[1])>>, grouped |-> <<>>,
                              current |-> 1], list, 2)
           refd == IF Len(st.heap[st.current].segments) > 0
                     THEN Append(st.grouped, st.current) ELSE st.grouped
       IN  [k \in 1..Len(refd) |-> st.heap[refd[k]]]

\* ---- what LiveStreamingTranscription renders (part_003, lines 220-230) --
\* A finalized entry as an item of the list: its timestamp is the string
\* toLocaleTimeString() returned; it has no start_time, end or end_time.
LocaleTime == "10:30:45"
Hourglass  == "(hourglass)"

FinalizedItem(t) ==
  [id |-> JsNum(t.id), speaker |-> t.speaker, text |-> t.text,
   timestamp |-> JsStr(LocaleTime), start_time |-> JsUndefined,
   end |-> JsUndefined, end_time |-> JsUndefined, isPartial |-> FALSE]

PartialItem ==
  [id |-> JsStr("partial"), speaker |-> "Speaking...",
   text |-> partialTranscript \o <<" ", Hourglass>>,
   timestamp |-> JsStr("now"), start_time |-> JsUndefined,
   end |-> JsUndefined, end_time |-> JsUndefined, isPartial |-> TRUE]

displayTranscripts ==
  [i \in 1..Len(transcripts) |-> FinalizedItem(transcripts[i])]
    \o (IF partialTranscript # <<>> /\ isStreaming THEN <<PartialItem>> ELSE <<>>)

\* ---- the batch server (README.md, merge_similar_speakers) ---------------
\* The number of adjacent pairs of segments with different speakers.
Transitions(speakers) ==
  Cardinality({i \in 1..(Len(speakers) - 1) : speakers[i].speaker # speakers[i + 1].speaker})

\* The transition rate, transitions / total segments, exceeds 40%.
OverSegmented(speakers) == 5 * Transitions(speakers) > 2 * Len(speakers)

merge_similar_speakers(speakers) ==
  IF OverSegmented(speakers)
    THEN [i \in 1..Len(speakers) |-> [speakers[i] EXCEPT !.speaker = "Speaker 1"]]
    ELSE speakers

\* The segments a diarization may yield.
Labels == {"A", "B"}

Segment(label, start, end) ==
  [speaker |-> label, text |-> <<"x">>, start_time |-> start, end_time |-> end]

TimedSegments ==
  {Segment(l, st, en) : l \in Labels, st \in {JsNull, JsNum(0), JsNum(65)},
                        en \in {JsNull, JsNum(70)}}

LabelledSegments == {Segment(l, JsNum(5), JsNum(7)) : l \in Labels}

RECURSIVE SeqsUpTo(_, _)
SeqsUpTo(S, n) ==
  IF n = 0 THEN {<<>>}
  ELSE LET shorter == SeqsUpTo(S, n - 1)
       IN  shorter \cup {Append(q, x) : q \in shorter, x \in S}

Diarizations ==
  (SeqsUpTo(TimedSegments, MaxSegments) \cup SeqsUpTo(LabelledSegments, MaxLabelled))
    \ {<<>>}

\* ---- FileTranscription (part_002) ---------------------------------------
\* The checkbox: setMergeSpeakers(e.target.checked).
ToggleMergeSpeakers ==
  /\ mergeSpeakers' = ~mergeSpeakers
  /\ UNCHANGED <<live, replay, waveform, rec, recorders, posts, ident, loading, result, fileError, upload, diarized, response>>

\* ---- speaker identification form (part_002) ----

\* Characters are one-letter strings, texts are sequences of them.
\* The texts typed into the names field: "", "Al", "Al, bo" and " bo,,Al".
NameTexts ==
  LET Al == <<"A", "l">>
      Bo == <<" ", "b", "o">>
  IN  {<< <<>> >>, <<Al>>, <<Al, Bo>>, <<Bo, <<>>, Al>>}

\* The selections made in the multiple file input, of the files al.mp3,
\* Bob.wav and x.flac (File.name = stem.ext).
RefSelections ==
  LET AlMp3  == [stem |-> <<"a", "l">>, ext |-> "mp3"]
      BobWav == [stem |-> <<"B", "o", "b">>, ext |-> "wav"]
      XFlac  == [stem |-> <<"x">>, ext |-> "flac"]
  IN  {<<>>, <<AlMp3, BobWav>>, <<XFlac, AlMp3>>}

\* The inputs the matching is exercised with.  texts: the texts above and
\* " " (truthy, no name), "Al,Al" (a name twice) and "bo,Al,x".  selections:
\* the selections above and others with alb.mp3 (a second file for Al) and
\* .mp3 (an empty base name).
MatchInputs ==
  LET Al     == <<"A", "l">>
      Bo     == <<"b", "o">>
      AlMp3  == [stem |-> <<"a", "l">>, ext |-> "mp3"]
      BobWav == [stem |-> <<"B", "o", "b">>, ext |-> "wav"]
      XFlac  == [stem |-> <<"x">>, ext |-> "flac"]
      AlbMp3 == [stem |-> <<"a", "l", "b">>, ext |-> "mp3"]
      DotMp3 == [stem |-> <<>>, ext |-> "mp3"]
  IN  [texts      |-> NameTexts \cup {<< <<" ">> >>, <<Al, Al>>, <<Bo, Al, <<"x">> >>},
       selections |-> RefSelections \cup
                        {<<AlMp3>>, <<AlbMp3, AlMp3>>, <<BobWav, AlbMp3, XFlac>>,
                         <<AlMp3, DotMp3>>, <<DotMp3, BobWav>>}]

\* String.prototype.toLowerCase on the letters used here.
toLowerCase(t) ==
  LET LowerChar(c) == CASE c = "A" -> "a" [] c = "B" -> "b" [] OTHER -> c
  IN  [i \in 1..Len(t) |-> LowerChar(t[i])]

RECURSIVE trim(_)
\* String.prototype.trim
trim(t) ==
  IF t = <<>> THEN t
  ELSE IF Head(t) = " " THEN trim(Tail(t))
  ELSE IF t[Len(t)] = " " THEN trim(SubSeq(t, 1, Len(t) - 1))
  ELSE t

\* String.prototype.includes
includes(t, part) ==
  \E i \in 0..(Len(t) - Len(part)) : SubSeq(t, i + 1, i + Len(part)) = part

\* A text is truthy unless it is the empty string.
TextTruthy(text) == text # << <<>> >>

\* text.split(",").map(s => s.trim()).filter(Boolean), lines 200, 304
RECURSIVE NamesOf(_)
NamesOf(text) ==
  IF text = <<>> THEN <<>>
  ELSE IF trim(Head(text)) = <<>> THEN NamesOf(Tail(text))
  ELSE <<trim(Head(text))>> \o NamesOf(Tail(text))

\* fileNameLower.replace(/\.(mp3|wav|m4a|webm|ogg)$/, ''), lines 83-85
fileBaseName(file) ==
  LET AudioExtensions == {"mp3", "wav", "m4a", "webm", "ogg"}
      ExtChars == CASE file.ext = "mp3"  -> <<"m", "p", "3">>
                    [] file.ext = "wav"  -> <<"w", "a", "v">>
                    [] file.ext = "flac" -> <<"f", "l", "a", "c">>
  IN  IF file.ext \in AudioExtensions THEN toLowerCase(file.stem)
      ELSE toLowerCase(file.stem) \o <<".">> \o ExtChars

\* A test of files.find that every file passes.
FileMatches_Always(file, name) == TRUE

\* The test of files.find, lines 82-87.
FileMatches(file, name) ==
  LET nameLower == trim(toLowerCase(name))
  IN  includes(fileBaseName(file), nameLower) \/ includes(nameLower, fileBaseName(file))

NoFile == [stem |-> <<>>, ext |-> "null"]

RECURSIVE matchFilesToSpeakers(_, _)
\* matchFilesToSpeakers, lines 73-117: { matched, unmatchedFiles }.  found:
\* the index files.find(...) stops at, 0 for undefined.  The files left when
\* the names are used up become unmatchedFiles (lines 107-114); their speaker
\* null is written <<"null">>, which no name of letters equals.
matchFilesToSpeakers(files, names) ==
  IF names = <<>>
  THEN [matched |-> <<>>,
        unmatchedFiles |-> [i \in 1..Len(files) |->
                              [speaker |-> <<"null">>, file |-> files[i], matched |-> FALSE]]]
  ELSE LET found == IF \E i \in 1..Len(files) : FileMatches(files[i], Head(names))
                    THEN CHOOSE i \in 1..Len(files) :
                           /\ FileMatches(files[i], Head(names))
                           /\ \A j \in 1..(i - 1) : ~FileMatches(files[j], Head(names))
                    ELSE 0
           entry == IF found # 0
                    THEN [speaker |-> Head(names), file |-> files[found], matched |-> TRUE]
                    ELSE [speaker |-> Head(names), file |-> NoFile, matched |-> FALSE]
           rest  == matchFilesToSpeakers(
                      IF found # 0 THEN SelectSeq(files, LAMBDA f : f # files[found])
                      ELSE files,
                      Tail(names))
       IN  [matched |-> <<entry>> \o rest.matched, unmatchedFiles |-> rest.unmatchedFiles]

\* The "Enable speaker identification" checkbox, lines 272-287: unchecking it
\* resets the form.
ToggleAdvanced ==
  /\ ident' = IF ident.useAdvanced THEN NoIdent ELSE [ident EXCEPT !.useAdvanced = TRUE]
  /\ UNCHANGED <<live, replay, waveform, rec, recorders, posts, loading, result, fileError,
                 mergeSpeakers, upload, diarized, response>>

\* onChange of the names field, lines 300-308; rendered when useAdvanced.
EditSpeakerNames(text) ==
  /\ ident.useAdvanced
  /\ text # ident.speakerNames
  /\ ident' = [ident EXCEPT
                 !.speakerNames = text,
                 !.fileMapping = IF Len(ident.referenceFiles) > 0
                                 THEN matchFilesToSpeakers(ident.referenceFiles,
                                                           NamesOf(text)).matched
                                 ELSE @]
  /\ UNCHANGED <<live, replay, waveform, rec, recorders, posts, loading, result, fileError,
                 mergeSpeakers, upload, diarized, response>>

\* The mode radio buttons, lines 316-358; rendered when speakerNames is truthy.
SetIdentificationMode(mode) ==
  /\ ident.useAdvanced /\ TextTruthy(ident.speakerNames)
  /\ mode # ident.identificationMode
  /\ ident' = [ident EXCEPT !.identificationMode = mode]
  /\ UNCHANGED <<live, replay, waveform, rec, recorders, posts, loading, result, fileError,
                 mergeSpeakers, upload, diarized, response>>

\* handleReferenceFilesChange, lines 198-223; its input is rendered in
\* reference mode when speakerNames is truthy (line 361).
HandleReferenceFilesChange(files) ==
  /\ ident.useAdvanced /\ TextTruthy(ident.speakerNames)
  /\ ident.identificationMode = "reference"
  /\ LET names == NamesOf(ident.speakerNames)
     IN  ident' = IF Len(files) > 0 /\ Len(names) > 0
                  THEN [ident EXCEPT !.fileMapping = matchFilesToSpeakers(files, names).matched]
                  ELSE [ident EXCEPT !.referenceFiles = files, !.fileMapping = <<>>]
  /\ UNCHANGED <<live, replay, waveform, rec, recorders, posts, loading, result, fileError,
                 mergeSpeakers, upload, diarized, response>>

\* orderedFiles, lines 143-145.
OrderedFiles(mapping) ==
  LET kept == SelectSeq(mapping, LAMBDA m : m.matched /\ m.file # NoFile)
  IN  [i \in 1..Len(kept) |-> kept[i].file]

\* The endpoint and the form fields besides file and merge_speakers, lines
\* 132-154.
FormFields ==
  IF ident.useAdvanced /\ TextTruthy(ident.speakerNames)
  THEN [endpoint |-> "/transcribe/advanced",
        speaker_names |-> ident.speakerNames,
        identification_mode |-> ident.identificationMode,
        reference_files |-> IF ident.identificationMode = "reference"
                               /\ Len(ident.fileMapping) > 0
                            THEN OrderedFiles(ident.fileMapping)
                            ELSE <<>>]
  ELSE [endpoint |-> "/transcribe", speaker_names |-> <<>>,
        identification_mode |-> "none", reference_files |-> <<>>]

\* handleFileUpload without setError(null).
HandleFileUpload_KeepsError ==
  /\ ~loading
  /\ loading' = TRUE
  /\ result' = NoResult
  /\ upload' = [pending |-> TRUE, merge_speakers |-> mergeSpeakers] @@ FormFields
  /\ diarized' = <<>>
  /\ response' = <<>>
  /\ UNCHANGED <<live, replay, waveform, rec, recorders, posts, ident, mergeSpeakers, fileError>>

\* handleFileUpload up to await fetch (lines 119-159); the file input is
\* disabled while loading.
HandleFileUpload ==
  /\ ~loading
  /\ loading' = TRUE
  /\ fileError' = NoError
  /\ result' = NoResult
  /\ upload' = [pending |-> TRUE, merge_speakers |-> mergeSpeakers] @@ FormFields
  /\ diarized' = <<>>
  /\ response' = <<>>
  /\ UNCHANGED <<live, replay, waveform, rec, recorders, posts, ident, mergeSpeakers>>

\* data.speakers.map(...), lines 171-177; idx counts from 0.
BatchItem(speaker, idx) ==
  [id         |-> JsNum(idx),
   speaker    |-> IF speaker.speaker # "" THEN speaker.speaker
                  ELSE "Speaker " \o ToString(idx + 1),
   text       |-> speaker.text,
   timestamp  |-> Or(speaker.start_time, JsNull),
   end        |-> Or(speaker.end_time, JsNull),
   start_time |-> JsUndefined,
   end_time   |-> JsUndefined,
   isPartial  |-> FALSE]

BatchTranscripts(speakers) == [i \in 1..Len(speakers) |-> BatchItem(speakers[i], i - 1)]

\* The response arrives with status ok and no error field (lines 161-196):
\* the server diarized segs and merged them if asked to.
Summaries == {"", "a summary"}

UploadResponds(segs, summary) ==
  /\ upload.pending
  /\ LET speakers == IF upload.merge_speakers THEN merge_similar_speakers(segs) ELSE segs
         list     == BatchTranscripts(speakers)
     IN  /\ result' = [set |-> TRUE, transcripts |-> list, summary |-> summary,
                       fullText |-> "the text", duration |-> 70,
                       speakerCount |-> Cardinality({list[i].speaker : i \in 1..Len(list)})]
         /\ response' = speakers
  /\ diarized' = segs
  /\ loading' = FALSE
  /\ upload' = [upload EXCEPT !.pending = FALSE]
  /\ UNCHANGED <<live, replay, waveform, rec, recorders, posts, ident, fileError, mergeSpeakers>>

\* fetch rejects, the status is not ok, or the response has an error field
\* (lines 161-195).
UploadFailures == {"Failed to process file", "Upload failed: Bad Request", "no speech"}

UploadFails(message) ==
  /\ upload.pending
  /\ fileError' = message
  /\ loading' = FALSE
  /\ upload' = [upload EXCEPT !.pending = FALSE]
  /\ UNCHANGED <<live, replay, waveform, rec, recorders, posts, ident, result, mergeSpeakers, diarized, response>>

\* mergeAllSpeakers (lines 225-238) applied to the result of the render.
mergeAllSpeakers_KeepsCount(res) ==
  IF ~res.set THEN res
  ELSE [res EXCEPT !.transcripts = [i \in 1..Len(res.transcripts) |->
                                      [res.transcripts[i] EXCEPT !.speaker = "Speaker 1"]]]

mergeAllSpeakers(res) ==
  IF ~res.set THEN res
  ELSE [res EXCEPT !.transcripts = [i \in 1..Len(res.transcripts) |->
                                      [res.transcripts[i] EXCEPT !.speaker = "Speaker 1"]],
                   !.speakerCount = 1]

\* The button "Merge into one speaker" is rendered for a result with
\* speakerCount === 2 (lines 479-495).
MergeAllSpeakers ==
  /\ result.set /\ result.speakerCount = 2
  /\ result' = mergeAllSpeakers(result)
  /\ UNCHANGED <<live, replay, waveform, rec, recorders, posts, ident, loading, fileError, mergeSpeakers, upload, diarized, response>>

NextBatch ==
  \/ ToggleMergeSpeakers
  \/ HandleFileUpload
  \/ \E segs \in Diarizations, summary \in Summaries : UploadResponds(segs, summary)
  \/ \E message \in UploadFailures : UploadFails(message)
  \/ MergeAllSpeakers

SpecBatch == Init /\ [][NextBatch]_vars

\* FileTranscription with the responses that decide speakerCount: data.speakers
\* absent or empty, and segments with and without a speaker label (line 173).
NextResult ==
  \/ ToggleMergeSpeakers
  \/ HandleFileUpload
  \/ \E segs \in SeqsUpTo({Segment(l, JsNum(5), JsNum(7)) : l \in {"", "A", "Speaker 1"}},
                           MaxSegments),
        summary \in Summaries : UploadResponds(segs, summary)
  \/ \E message \in UploadFailures : UploadFails(message)
  \/ MergeAllSpeakers

SpecResult == Init /\ [][NextResult]_vars

\* FileTranscription with the identification form; the server answers with one
\* segment.
NextReference ==
  \/ ToggleAdvanced
  \/ \E text \in NameTexts : EditSpeakerNames(text)
  \/ \E mode \in {"rename", "reference"} : SetIdentificationMode(mode)
  \/ \E files \in RefSelections : HandleReferenceFilesChange(files)
  \/ HandleFileUpload
  \/ UploadResponds(<<Segment("A", JsNum(5), JsNum(7))>>, "")
  \/ UploadFails("Failed to process file")

SpecReference == Init /\ [][NextReference]_vars

\* The identification form alone, with the inputs of the matching.
NextMatch ==
  \/ ToggleAdvanced
  \/ \E text \in MatchInputs.texts : EditSpeakerNames(text)
  \/ \E mode \in {"rename", "reference"} : SetIdentificationMode(mode)
  \/ \E files \in MatchInputs.selections : HandleReferenceFilesChange(files)

SpecMatch == Init /\ [][NextMatch]_vars

-----------------------------------------------------------------------------
\* getSpeakerColor (part_004, lines 3-10 and 100-105)

SPEAKER_COLORS == <<"#4ea8de", "#9d4edd", "#faa307", "#38b000", "#e63946", "#06ffa5">>

\* The speaker labels of the batch responses the colours are checked for.
ColourLabels ==
  {"A", "B", "C", "D", "E", "F", "G", "Alice", "Bob", "Al",
   "Speaker 1", "Speaker 2", "Speaker 3", "Speaker 4", "Speaker 5", "Speaker 6", "Speaker 7"}

\* speaker.split("") for the labels above
split(label) ==
  LET Speaker_ == <<"S", "p", "e", "a", "k", "e", "r", " ">>
  IN
  CASE label \in {"A", "B", "C", "D", "E", "F", "G"} -> <<label>>
    [] label = "Speaker 1" -> Speaker_ \o <<"1">>
    [] label = "Speaker 2" -> Speaker_ \o <<"2">>
    [] label = "Speaker 3" -> Speaker_ \o <<"3">>
    [] label = "Speaker 4" -> Speaker_ \o <<"4">>
    [] label = "Speaker 5" -> Speaker_ \o <<"5">>
    [] label = "Speaker 6" -> Speaker_ \o <<"6">>
    [] label = "Speaker 7" -> Speaker_ \o <<"7">>
    [] label = "Alice"     -> <<"A", "l", "i", "c", "e">>
    [] label = "Bob"       -> <<"B", "o", "b">>
    [] label = "Al"        -> <<"A", "l">>

\* char.charCodeAt(0) for the characters of the labels above
charCodeAt(c) ==
  CASE c = " " -> 32
    [] c = "1" -> 49 [] c = "2" -> 50 [] c = "3" -> 51 [] c = "4" -> 52
    [] c = "5" -> 53 [] c = "6" -> 54 [] c = "7" -> 55
    [] c = "A" -> 65 [] c = "B" -> 66 [] c = "C" -> 67 [] c = "D" -> 68
    [] c = "E" -> 69 [] c = "F" -> 70 [] c = "G" -> 71 [] c = "S" -> 83
    [] c = "a" -> 97 [] c = "b" -> 98 [] c = "c" -> 99 [] c = "e" -> 101
    [] c = "i" -> 105 [] c = "k" -> 107 [] c = "l" -> 108 [] c = "o" -> 111
    [] c = "p" -> 112 [] c = "r" -> 114

\* A JavaScript number that is an integer, kept as hi * 2^16 + lo with
\* 0 <= lo < 2^16: acc leaves the 32-bit range, since only << wraps.
Limb == 65536

\* char.charCodeAt(0) + ((acc << 5) - acc), line 102.  shifted is acc << 5:
\* ToInt32 of acc, shifted, wrapped to 32 bits again; it depends on the low
\* 27 bits of acc only.
HashStep(acc, c) ==
  LET low27   == (acc.hi % 2048) * Limb + acc.lo
      shifted == IF low27 >= 67108864 THEN (low27 - 134217728) * 32 ELSE low27 * 32
      lo      == (shifted % Limb) - acc.lo + charCodeAt(c)
  IN  [hi |-> (shifted \div Limb) - acc.hi + (lo \div Limb), lo |-> lo % Limb]

RECURSIVE Reduce(_, _)
\* chars.reduce(HashStep, acc)
Reduce(chars, acc) ==
  IF chars = <<>> THEN acc ELSE Reduce(Tail(chars), HashStep(acc, Head(chars)))

\* Math.abs(hash) % SPEAKER_COLORS.length, line 104
ColourIndex(hash) ==
  LET n == Len(SPEAKER_COLORS)
  IN  IF hash.hi >= 0 THEN ((hash.hi % n) * (Limb % n) + hash.lo) % n
      ELSE (((0 - hash.hi) % n) * (Limb % n) - hash.lo) % n

getSpeakerColor(speaker) ==
  SPEAKER_COLORS[ColourIndex(Reduce(split(speaker), [hi |-> 0, lo |-> 0])) + 1]

\* FileTranscription with responses whose speakers carry the labels above.
NextColours ==
  \/ ToggleMergeSpeakers
  \/ HandleFileUpload
  \/ \E segs \in SeqsUpTo({Segment(l, JsNum(5), JsNum(7)) : l \in ColourLabels},
                           MaxSegments) \ {<<>>} : UploadResponds(segs, "")
  \/ UploadFails("Failed to process file")

SpecColours == Init /\ [][NextColours]_vars

\* ---- the handler run twice ----------------------------------------------
\* One run of the handler's state updates for the event ev, with now the
\* value Date.now() returns in this run.
RunAfter(run, ev, now) ==
  [transcripts       |-> TranscriptsAfter(run.transcripts, ev, now),
   partialTranscript |-> PartialAfter(run.partialTranscript, ev)]

\* The next event of the list is handled in both runs; the two runs read
\* the clock at different times.  carried records the id of each completed
\* event with text.
Replay(ev, nowA, nowB) ==
  /\ ev.type \in DeltaTypes =>
       Len(replay.a.partialTranscript) + Len(ev.text) <= MaxPartialLen
  /\ ev.type \in CompletedTypes => Len(replay.carried) < MaxCompleted
  /\ replay' = [a |-> RunAfter(replay.a, ev, nowA),
                b |-> RunAfter(replay.b, ev, nowB),
                carried |-> IF ev.type \in CompletedTypes /\ ev.text # <<>>
                              THEN Append(replay.carried, ev.id) ELSE replay.carried]
  /\ UNCHANGED <<live, batch, waveform, rec, recorders, posts>>

NextReplay == \E ev \in Events, nowA \in Clock, nowB \in Clock : Replay(ev, nowA, nowB)

SpecReplay == Init /\ [][NextReplay]_vars

\* ---- the audio path -----------------------------------------------------
\* The blocks of SpecAudio: every sample value alone, and two blocks of two
\* samples.
AudioBlocks ==
  {<<x>> : x \in Samples} \cup {<<SampleScale, 0 - SampleScale>>, <<0, 1>>}

\* One session that starts, opens, fails, closes and is stopped, fed with
\* every block.
NextAudio ==
  \/ StartStreaming /\ \A s \in Sessions : sess[s].call = "idle"
  \/ \E s \in Sessions : GetUserMediaResolve(s)
  \/ \E s \in Sessions : WsOpen(s)
  \/ \E s \in Sessions : WsError(s)
  \/ \E s \in Sessions : WsClose(s)
  \/ \E s \in Sessions, float32 \in AudioBlocks :
       BlocksFrom(1) < MaxAudioBlocks /\ OnAudioProcess(s, float32)
  \/ StopStreaming

SpecAudio == Init /\ [][NextAudio]_vars

\* ---- Waveform (part_000) -------------------------------------------------
\* The tracks of stream.clone(): a clone of a live track is live, a clone of
\* an ended track is ended.
CloneTracks(tracks, clone) ==
  IF tracks = "live" \/ clone = "live" THEN "live" ELSE "stopped"

\* The effect of lines 10-173, with dependencies [isActive, stream] =
\* [isStreaming, streamRef.current] of the render (part_003, lines 261-265):
\* the cleanup of the previous run closes its AudioContext; an active run
\* with a stream makes an AudioContext and clones the stream.
WaveformEffect ==
  /\ mounted
  /\ <<isStreaming, streamRef>> # <<waveform.isActive, waveform.stream>>
  /\ LET active == isStreaming /\ streamRef # Null
     IN  /\ waveform' = [isActive |-> isStreaming, stream |-> streamRef,
                         ctx |-> IF active THEN "running"
                                 ELSE IF waveform.ctx = "running" THEN "closed"
                                 ELSE waveform.ctx]
         /\ sess' = IF active
                      THEN [sess EXCEPT ![streamRef].clone =
                              CloneTracks(sess[streamRef].tracks, @)]
                      ELSE sess
  /\ UNCHANGED <<isStreaming, error, status, refs, mounted, nextSession, texts, replay, batch, rec, recorders, posts>>

\* The Waveform is unmounted with its parent: the cleanup closes its
\* AudioContext (lines 43-57, 169-172).
WaveformUnmount ==
  /\ ~mounted /\ waveform.ctx = "running"
  /\ waveform' = [waveform EXCEPT !.ctx = "closed"]
  /\ UNCHANGED <<live, replay, batch, rec, recorders, posts>>

\* One session with its Waveform.
NextWaveform ==
  \/ StartStreaming /\ \A s \in Sessions : sess[s].call = "idle"
  \/ \E s \in Sessions : GetUserMediaResolve(s)
  \/ \E s \in Sessions : WsOpen(s)
  \/ \E s \in Sessions : WsError(s)
  \/ \E s \in Sessions : WsClose(s)
  \/ \E s \in Sessions, ev \in SessionEvents : WsMessage(s, ev, 100)
  \/ \E s \in Sessions : AudioProcess(s)
  \/ StopStreaming
  \/ Unmount
  \/ WaveformEffect
  \/ WaveformUnmount

SpecWaveform == Init /\ [][NextWaveform]_vars

-----------------------------------------------------------------------------
\* RecordTranscription (src/frontend/src/components/RecordTranscription.jsx)

\* The sizes in bytes a dataavailable event's blob may have.
ChunkSizes == {0, 600}

\* audioBlob.size < 1000, line 114.
MinBlobSize == 1000

NoChunks    == "No audio data was recorded. Please try again."
TooSmall    == "Recording failed - audio data is too small. Please speak louder or try again."
TooShort    == "Recording is too short. Please record for at least 2 seconds."

RECURSIVE BlobSize(_)
\* new Blob(audioChunksRef.current).size, line 105: the sizes add up.
BlobSize(chunks) ==
  IF chunks = <<>> THEN 0 ELSE Head(chunks).size + BlobSize(Tail(chunks))

\* The message the validation of onstop throws for this buffer, lines 100-120,
\* or NoError when the recording passes.  short: actualDuration < 0.5.
Validation_SizeOnly(chunks, short) ==
  IF Len(chunks) = 0 THEN NoChunks
  ELSE IF BlobSize(chunks) < MinBlobSize THEN TooSmall
  ELSE NoError

Validation(chunks, short) ==
  IF Len(chunks) = 0 THEN NoChunks
  ELSE IF BlobSize(chunks) < MinBlobSize THEN TooSmall
  ELSE IF short THEN TooShort
  ELSE NoError

\* The button calls startRecording when isRecording is false and it is not
\* disabled by loading (lines 253-259); lines 19-26 run up to the await.
StartRecording ==
  /\ ~rec.isRecording /\ ~rec.loading
  /\ rec.nextRecording <= MaxRecordings
  /\ recorders' = [recorders EXCEPT ![rec.nextRecording].call = "awaiting"]
  /\ rec' = [rec EXCEPT !.error = NoError,
                        !.status = "Requesting microphone access...",
                        !.audioChunksRef = <<>>,
                        !.nextRecording = @ + 1]
  /\ UNCHANGED <<live, replay, batch, waveform, posts>>

\* getUserMedia rejects: the catch of startRecording, lines 202-206.
RecGetUserMediaReject(r) ==
  /\ recorders[r].call = "awaiting"
  /\ recorders' = [recorders EXCEPT ![r].call = "done"]
  /\ rec' = [rec EXCEPT !.error = MicFailed, !.status = "Error"]
  /\ UNCHANGED <<live, replay, batch, waveform, posts>>

\* getUserMedia resolves and the MediaRecorder starts, lines 37-200.
RecGetUserMediaResolve(r) ==
  /\ recorders[r].call = "awaiting"
  /\ recorders' = [recorders EXCEPT ![r].call = "done", ![r].state = "recording",
                                    ![r].tracks = "live", ![r].timer = "running"]
  /\ rec' = [rec EXCEPT !.streamRef = r, !.mediaRecorderRef = r, !.timerRef = r,
                        !.isRecording = TRUE,
                        !.status = "Recording... Click Stop when done"]
  /\ UNCHANGED <<live, replay, batch, waveform, posts>>

\* getUserMedia resolves and new MediaRecorder throws (line 57): the stream is
\* in streamRef (line 37) and the catch of lines 202-206 runs.
RecStartThrows(r) ==
  /\ recorders[r].call = "awaiting"
  /\ recorders' = [recorders EXCEPT ![r].call = "done", ![r].tracks = "live"]
  /\ rec' = [rec EXCEPT !.streamRef = r, !.error = MicFailed, !.status = "Error"]
  /\ UNCHANGED <<live, replay, batch, waveform, posts>>

\* A chunk of recorder r: the n-th non-empty blob it delivered.
Chunk(r, size) == [rec |-> r, n |-> Len(recorders[r].produced) + 1, size |-> size]

\* ondataavailable, lines 64-70: a non-empty blob is pushed to the array
\* audioChunksRef holds when the event is handled.
OnDataAvailable(r, size) ==
  /\ recorders[r].state = "recording"
  /\ rec.delivered < MaxChunks
  /\ size > 0
  /\ rec' = [rec EXCEPT !.audioChunksRef = Append(@, Chunk(r, size)),
                        !.delivered = @ + 1]
  /\ recorders' = [recorders EXCEPT ![r].produced = Append(@, Chunk(r, size))]
  /\ UNCHANGED <<live, replay, batch, waveform, posts>>

\* stopRecording, lines 209-229: the button calls it when isRecording.
StopRecording ==
  /\ rec.isRecording /\ ~rec.loading
  /\ rec.mediaRecorderRef # Null
  /\ LET stopped == [recorders EXCEPT ![rec.mediaRecorderRef].state = "inactive",
                                      ![rec.mediaRecorderRef].onstop = "due"]
         muted   == IF rec.streamRef = Null THEN stopped
                    ELSE [stopped EXCEPT ![rec.streamRef].tracks = "stopped"]
     IN  recorders' = IF rec.timerRef = Null THEN muted
                      ELSE [muted EXCEPT ![rec.timerRef].timer = "cleared"]
  /\ rec' = [rec EXCEPT !.isRecording = FALSE, !.timerRef = Null]
  /\ UNCHANGED <<live, replay, batch, waveform, posts>>

\* The task MediaRecorder.stop() queued: the last dataavailable (lines 64-70)
\* and then onstop up to its await, lines 77-95.
OnStop(r, size) ==
  /\ recorders[r].onstop = "due"
  /\ size > 0 => rec.delivered < MaxChunks
  /\ LET last == IF size > 0 THEN <<Chunk(r, size)>> ELSE <<>>
         heard == [recorders EXCEPT ![r].onstop = "waiting",
                                    ![r].produced = @ \o last]
     IN  /\ recorders' = IF rec.timerRef = Null THEN heard
                         ELSE [heard EXCEPT ![rec.timerRef].timer = "cleared"]
         /\ rec' = [rec EXCEPT !.audioChunksRef = @ \o last,
                               !.delivered = @ + Len(last),
                               !.status = "Processing recording...",
                               !.loading = TRUE,
                               !.timerRef = Null]
  /\ UNCHANGED <<live, replay, batch, waveform, posts>>

\* After the 200 ms: validation (lines 99-120) and either the catch and the
\* finally (lines 174-182) or the POST of lines 122-132.
OnStopAfterWait(r, short) ==
  /\ recorders[r].onstop = "waiting"
  /\ LET message == Validation(rec.audioChunksRef, short)
     IN  IF message # NoError
         THEN /\ rec' = [rec EXCEPT !.error = message, !.status = "Error",
                                    !.loading = FALSE, !.audioChunksRef = <<>>]
              /\ recorders' = [recorders EXCEPT ![r].onstop = "rejected",
                                                ![r].produced = <<>>]
              /\ posts' = posts
         ELSE /\ posts' = posts \cup {r}
              /\ recorders' = [recorders EXCEPT ![r].onstop = "fetching",
                                                ![r].produced = <<>>]
              /\ rec' = rec
  /\ UNCHANGED <<live, replay, batch, waveform>>

\* What the fetch of line 129 may come to, lines 129-173.
RecOutcomes == {"speakers", "text", "silence", "not ok", "error field", "rejected"}

RecFailure(outcome) ==
  CASE outcome = "not ok"      -> "Upload failed: Bad Request"
    [] outcome = "error field" -> "no speech"
    [] outcome = "rejected"    -> "Failed to fetch"
    [] OTHER                   -> NoError

\* The entries lines 147-166 append for the outcome.
RecItems(outcome) ==
  CASE outcome = "speakers" -> <<[id |-> 100, speaker |-> "Speaker 1", text |-> "hello",
                                  timestamp |-> JsNull, end |-> JsNum(2)]>>
    [] outcome = "text"     -> <<[id |-> 100, speaker |-> "Speaker", text |-> "hello",
                                  timestamp |-> JsNull, end |-> JsUndefined]>>
    [] OTHER                -> <<>>

RecStatus(outcome) ==
  CASE outcome = "speakers" -> "Added 1 transcript segments"
    [] outcome = "text"     -> "Transcription complete"
    [] outcome = "silence"  -> "No speech detected"
    [] OTHER                -> "Error"

OnStopResponse_NoFinally(r, outcome) ==
  /\ recorders[r].onstop = "fetching"
  /\ recorders' = [recorders EXCEPT ![r].onstop = "done"]
  /\ rec' = [rec EXCEPT !.transcripts = @ \o RecItems(outcome),
                        !.status = RecStatus(outcome),
                        !.error = IF RecFailure(outcome) = NoError THEN @
                                  ELSE RecFailure(outcome),
                        !.readyTimer = @ \/ RecFailure(outcome) = NoError,
                        !.loading = @ /\ RecFailure(outcome) # NoError,
                        !.audioChunksRef = IF RecFailure(outcome) = NoError THEN <<>> ELSE @]
  /\ UNCHANGED <<live, replay, batch, waveform, posts>>

\* The fetch settles: the rest of the try, the catch and the finally, lines
\* 134-182.
OnStopResponse(r, outcome) ==
  /\ recorders[r].onstop = "fetching"
  /\ recorders' = [recorders EXCEPT ![r].onstop = "done"]
  /\ rec' = [rec EXCEPT !.transcripts = @ \o RecItems(outcome),
                        !.status = RecStatus(outcome),
                        !.error = IF RecFailure(outcome) = NoError THEN @
                                  ELSE RecFailure(outcome),
                        !.readyTimer = @ \/ RecFailure(outcome) = NoError,
                        !.loading = FALSE,
                        !.audioChunksRef = <<>>]
  /\ UNCHANGED <<live, replay, batch, waveform, posts>>

\* setTimeout(() => setStatus("Ready"), 3000), line 173.
RecStatusTimer ==
  /\ rec.readyTimer
  /\ rec' = [rec EXCEPT !.status = "Ready", !.readyTimer = FALSE]
  /\ UNCHANGED <<live, replay, batch, waveform, recorders, posts>>

\* clearTranscripts, lines 231-235; its button is rendered at lines 261-265.
RecClearTranscripts ==
  /\ Len(rec.transcripts) > 0 /\ ~rec.isRecording
  /\ rec' = [rec EXCEPT !.transcripts = <<>>, !.status = "Ready", !.error = NoError]
  /\ UNCHANGED <<live, replay, batch, waveform, recorders, posts>>

\* RecordTranscription on its own.
NextRecord ==
  \/ StartRecording
  \/ \E r \in Recordings : RecGetUserMediaReject(r)
  \/ \E r \in Recordings : RecGetUserMediaResolve(r)
  \/ \E r \in Recordings : RecStartThrows(r)
  \/ \E r \in Recordings, size \in ChunkSizes : OnDataAvailable(r, size)
  \/ StopRecording
  \/ \E r \in Recordings, size \in ChunkSizes : OnStop(r, size)
  \/ \E r \in Recordings, short \in BOOLEAN : OnStopAfterWait(r, short)
  \/ \E r \in Recordings, outcome \in RecOutcomes : OnStopResponse(r, outcome)
  \/ RecStatusTimer
  \/ RecClearTranscripts

SpecRecord == Init /\ [][NextRecord]_vars

\* App renders the component of the active tab only (App.jsx, lines 23-25):
\* either RecordTranscription or FileTranscription runs, from its initial
\* state.
NextLoading ==
  \/ (~loading /\ ~result.set /\ fileError = NoError /\ upload = NoUpload) /\ NextRecord
  \/ rec = NoRec /\ HandleFileUpload
  \/ rec = NoRec /\ UploadResponds(<<Segment("A", JsNum(5), JsNum(7))>>, "")
  \/ rec = NoRec /\ \E message \in UploadFailures : UploadFails(message)

\* Timers fire and fetches settle: while a 200 ms timer or a fetch of onstop
\* is pending, one of them does, and so does the fetch of handleFileUpload.
SpecLoading ==
  /\ Init /\ [][NextLoading]_vars
  /\ WF_vars(\/ \E r \in Recordings, short \in BOOLEAN : OnStopAfterWait(r, short)
             \/ \E r \in Recordings, outcome \in RecOutcomes : OnStopResponse(r, outcome))
  /\ WF_vars(\/ UploadResponds(<<Segment("A", JsNum(5), JsNum(7))>>, "")
             \/ \E message \in UploadFailures : UploadFails(message))

\* ======================================================================
\* Properties
\* ======================================================================

\* The characters of partialTranscript that came from deltas of channel c.
RECURSIVE Pick(_, _, _)
Pick(txt, tags, c) ==
  IF txt = <<>> THEN <<>>
  ELSE (IF Head(tags) = c THEN <<Head(txt)>> ELSE <<>>) \o Pick(Tail(txt), Tail(tags), c)

ChanText(c) == Pick(partialTranscript, partialChan, c)

OtherChannel(c) == IF c = "caller" THEN "assistant" ELSE "caller"

CompletedEvents == {ev \in Events : ev.type \in CompletedTypes}

C2_FinalTextAuthoritative ==
  \A i \in DOMAIN transcripts :
    i \in DOMAIN completedTexts /\ transcripts[i].text = completedTexts[i]

\* An entry was finalized over accumulated deltas that differ from its text.
C2_Witness == finalDiffered /\ Len(transcripts) > 0

\* ---- C3 -----------------------------------------------------------------
\* C3: a completed event on one channel leaves the provisional text that the
\* other channel's deltas accumulated unchanged.
C3_OtherChannelUntouched ==
  [][\A s \in Sessions, ev \in CompletedEvents, now \in Clock :
       WsMessage(s, ev, now) =>
         ChanText(OtherChannel(Channel(ev.type)))' = ChanText(OtherChannel(Channel(ev.type)))]_vars

\* ---- C4 -----------------------------------------------------------------
\* C4: immediately after a completed event is handled, the provisional text
\* of that event's channel is empty, for every final text.
C4_AccumulatorCleared ==
  [][\A s \in Sessions, ev \in CompletedEvents, now \in Clock :
       WsMessage(s, ev, now) => ChanText(Channel(ev.type))' = <<>>]_vars

\* ---- session resources --------------------------------------------------
WsLive(s)     == sess[s].ws \in {"CONNECTING", "OPEN"}
MicLive(s)    == sess[s].tracks = "live"
\* Nothing of session s is left running: socket closing or closed, processor
\* not delivering blocks, context closed, microphone tracks stopped.
Released(s) ==
  /\ ~WsLive(s)
  /\ sess[s].proc # "connected"
  /\ sess[s].ctx # "running"
  /\ ~MicLive(s)

\* ---- C5 -----------------------------------------------------------------
\* C5: a client stop from the streaming state ends, in that one step and
\* without any server event, with isStreaming false and every resource
\* of the component released.
C5_StopReleasesEverything ==
  [][StopStreaming => (~isStreaming /\ \A s \in Sessions : Released(s))']_vars

\* ---- C6 -----------------------------------------------------------------
\* C6: when the server closes the open socket of a streaming session, the
\* close handler leaves the streaming state and releases the microphone and
\* the AudioContext of that session, so no further block is processed.
C6_ServerCloseTearsDown ==
  [][\A s \in Sessions :
       (WsClose(s) /\ sess[s].ws = "OPEN" /\ isStreaming /\ mounted) =>
         (~isStreaming /\ Released(s))']_vars

\* ---- C7 -----------------------------------------------------------------
\* C7: at most one WebSocket is connecting or open, at most one microphone
\* stream is live, and each of them is held by the component's ref, where a
\* later stopStreaming finds it.
C7_AtMostOneTransport ==
  /\ Cardinality({s \in Sessions : WsLive(s)}) <= 1
  /\ Cardinality({s \in Sessions : MicLive(s)}) <= 1
  /\ \A s \in Sessions : (WsLive(s) => wsRef = s) /\ (MicLive(s) => streamRef = s)

\* ---- C8 -----------------------------------------------------------------
\* C8: when the component is unmounted while streaming, the socket and the
\* microphone stream its refs hold are closed and stopped by the cleanup.
C8_UnmountStops ==
  [][(Unmount /\ isStreaming) =>
       /\ wsRef # Null => ~WsLive(wsRef)'
       /\ streamRef # Null => ~MicLive(streamRef)']_vars

\* ---- C9 -----------------------------------------------------------------
\* C9: when a socket fails before its open event, the handler leaves the
\* error message set, isStreaming false and that session's resources
\* released, and no frame was sent on that socket.
C9_ConnectFailureEndsInError ==
  [][\A s \in Sessions :
       (WsError(s) /\ ~sess[s].opened /\ mounted) =>
         (error = ConnectFailed /\ ~isStreaming /\ Released(s) /\ sess[s].sent = 0)']_vars

\* ---- C10 ----------------------------------------------------------------
\* C10 as stated: frames are sent on a socket, and the component reports
\* streaming, only after a session.created / session.updated message.
C10_ActiveOnlyAfterReady ==
  /\ \A s \in Sessions : sess[s].sent > 0 => sess[s].ready
  /\ isStreaming => \E s \in Sessions : sess[s].ready

\* C10 amended: frames are sent on a socket only after that socket's open
\* event, and the component reports streaming only after an open event.
C10_ActiveOnlyAfterOpen ==
  /\ \A s \in Sessions : sess[s].sent > 0 => sess[s].opened
  /\ isStreaming => \E s \in Sessions : sess[s].opened

\* Streaming, with a frame sent on a socket that has seen no ready message.
C10_Witness == isStreaming /\ \E s \in Sessions : sess[s].sent > 0 /\ ~sess[s].ready


\* ---- the audio path: properties ----------------------------------------
IsOpenBlock(f) == f.open

\* The input blocks of session s that arrived while its socket was OPEN.
OpenBlocks(s) == SelectSeq(sess[s].fed, IsOpenBlock)

\* C11: every sample of every frame sent is an integer of the signed 16-bit
\* range obtained from its input sample without wrap-around: inputs of +1.0
\* and above give 32767, inputs of -1.0 and below give -32768, 0 gives 0, an
\* input within [-1, 1] gives its product with 32767 (non-negative) or 32768
\* (negative) with the fraction dropped, and a larger input never gives a
\* smaller output.
C11_ClampAndScale ==
  \A s \in Sessions :
    \A i \in 1..Len(sess[s].frames) :
      \A j \in 1..Len(sess[s].frames[i]) :
        LET x == OpenBlocks(s)[i].block[j]
            y == sess[s].frames[i][j]
        IN  /\ y \in (0 - HalfRange)..MaxInt16
            /\ x >= SampleScale => y = MaxInt16
            /\ x <= 0 - SampleScale => y = 0 - HalfRange
            /\ x = 0 => y = 0
            /\ (x >= 0 /\ x <= SampleScale) =>
                  (y * SampleScale <= x * MaxInt16 /\ x * MaxInt16 < (y + 1) * SampleScale)
            /\ (x < 0 /\ x >= 0 - SampleScale) =>
                  ((y - 1) * SampleScale < x * HalfRange /\ x * HalfRange <= y * SampleScale)
            /\ \A t \in Sessions :
                 \A k \in 1..Len(sess[t].frames) :
                   \A l \in 1..Len(sess[t].frames[k]) :
                     x <= OpenBlocks(t)[k].block[l] => y <= sess[t].frames[k][l]

\* A session has sent a sample above +1.0 and a sample below -1.0.
C11_Witness ==
  \E s \in Sessions :
    \E i, k \in 1..Len(sess[s].frames) :
      /\ Len(OpenBlocks(s)) = Len(sess[s].frames)
      /\ OpenBlocks(s)[i].block[1] > SampleScale
      /\ OpenBlocks(s)[k].block[1] < 0 - SampleScale

\* C12: the frames a session has sent are as many as the blocks it was
\* given less the blocks that arrived while its socket was not OPEN, and the
\* i-th frame sent has the length and the samples of the i-th block that
\* arrived while the socket was OPEN.
C12_FramesFollowBlocks ==
  \A s \in Sessions :
    LET dropped == Cardinality({i \in 1..Len(sess[s].fed) : ~sess[s].fed[i].open})
    IN  /\ Len(sess[s].frames) = Len(sess[s].fed) - dropped
        /\ Len(sess[s].frames) = Len(OpenBlocks(s))
        /\ \A i \in 1..Len(sess[s].frames) :
             /\ Len(sess[s].frames[i]) = Len(OpenBlocks(s)[i].block)
             /\ \A j \in 1..Len(sess[s].frames[i]) :
                  sess[s].frames[i][j] = Pcm16(OpenBlocks(s)[i].block[j])

\* Two different blocks have been sent as two different frames.
C12_Witness ==
  \E s \in Sessions :
    /\ Len(sess[s].frames) = 2
    /\ sess[s].frames[1] # sess[s].frames[2]
    /\ Len(sess[s].frames[1]) # Len(sess[s].frames[2])

\* What the component holds for session s, the history of the blocks and
\* of the messages left out.
SessionState(s) ==
  <<isStreaming, error, status, refs, transcripts, partialTranscript,
    [f \in (DOMAIN sess[s]) \ {"blocks", "fed", "dropped"} |-> sess[s][f]]>>

\* C13: a block that arrives while the socket of its session is not OPEN is
\* counted: the step changes something the component holds for the session.
C13_DropCounted ==
  [][\A s \in Sessions :
       (/\ Len(sess'[s].fed) = Len(sess[s].fed) + 1
        /\ ~sess'[s].fed[Len(sess'[s].fed)].open)
       => SessionState(s)' # SessionState(s)]_vars

\* C13: the block is discarded and never sent later.
C13_DropDiscarded ==
  [][\A s \in Sessions :
       (/\ Len(sess'[s].fed) = Len(sess[s].fed) + 1
        /\ ~sess'[s].fed[Len(sess'[s].fed)].open)
       => sess'[s].frames = sess[s].frames]_vars

\* ---- messages that are not transcript events ---------------------------
ErrorEvents   == [type : {ErrorEvent}, text : {<<>>}, id : {0}]
DroppedEvents == [type : DroppedTypes, text : {<<>>}, id : {0}]

\* C14: handling an error event sets the error shown and nothing else: the
\* transcripts, the provisional text, the streaming state, the status, the
\* refs and the session's objects are as before, so that every later event
\* meets the state it would have met without the error.
C14_ErrorOnlySurfaces ==
  [][\A s \in Sessions, ev \in ErrorEvents, now \in Clock :
       WsMessage(s, ev, now) =>
         /\ error' = ServerMessage
         /\ UNCHANGED <<transcripts, partialTranscript, partialChan, hist,
                        isStreaming, status, refs, mounted, nextSession, sess>>]_vars

\* An error is shown while the session is live over finalized and
\* provisional text.
C14_Witness ==
  /\ error = ServerMessage /\ isStreaming /\ status = "Live"
  /\ transcripts # <<>> /\ partialTranscript # <<>>

\* C15: handling a message of an unrecognized type, or one that is not JSON,
\* changes nothing of the component: transcripts, provisional text, error,
\* streaming state, status and refs are as before and the session's socket
\* stays OPEN with its other objects untouched.
C15_UnknownDropped ==
  [][\A s \in Sessions, ev \in DroppedEvents, now \in Clock :
       WsMessage(s, ev, now) =>
         /\ UNCHANGED <<transcripts, partialTranscript, partialChan, hist, error,
                        isStreaming, status, refs, mounted, nextSession>>
         /\ SessionState(s)' = SessionState(s)
         /\ sess'[s].ws = "OPEN"]_vars

\* A session that dropped a message is live, shows no error and has
\* finalized an entry.
C15_Witness ==
  \E s \in Sessions :
    /\ sess[s].dropped /\ sess[s].ws = "OPEN" /\ isStreaming
    /\ error = NoError /\ transcripts # <<>>

\* ---- the finalized list ------------------------------------------------
\* C17: every step leaves the finalized list as it is or appends exactly one
\* entry at its end, unless the step is clearTranscripts, which empties it;
\* stopStreaming leaves it as it is; and the i-th entry carries the text of
\* the i-th completed event with text received since the list was emptied.
C17_AppendOnly ==
  /\ [](/\ Len(transcripts) = Len(completedTexts)
        /\ \A i \in 1..Len(transcripts) : transcripts[i].text = completedTexts[i])
  /\ [][/\ \/ transcripts' = transcripts
           \/ /\ Len(transcripts') = Len(transcripts) + 1
              /\ SubSeq(transcripts', 1, Len(transcripts)) = transcripts
              /\ \E s \in Sessions, ev \in CompletedEvents, now \in Clock : WsMessage(s, ev, now)
           \/ ClearTranscripts /\ transcripts' = <<>>
        /\ StopStreaming => transcripts' = transcripts]_vars

\* Two different entries are still in the list, in order of arrival, after
\* the session was stopped.
C17_Witness ==
  /\ status = "Stopped" /\ ~isStreaming
  /\ Len(transcripts) = 2 /\ transcripts[1].text = <<"a">> /\ transcripts[2].text = <<"b">>

\* ---- the handler run twice: properties ---------------------------------
\* C16 as stated: the two runs over the same event list hold identical
\* finalized lists: same length and, per position, same id, speaker and text.
C16_RunsIdentical == replay.a.transcripts = replay.b.transcripts

\* C16, amended: the two runs hold lists of the same length with the same
\* speaker and text per position and the same provisional text, and the
\* same id at every position whose completed event carried an id.
C16_RunsAgreeButClockIds ==
  /\ Len(replay.a.transcripts) = Len(replay.b.transcripts)
  /\ Len(replay.a.transcripts) = Len(replay.carried)
  /\ replay.a.partialTranscript = replay.b.partialTranscript
  /\ \A i \in 1..Len(replay.a.transcripts) :
       /\ replay.a.transcripts[i].speaker = replay.b.transcripts[i].speaker
       /\ replay.a.transcripts[i].text = replay.b.transcripts[i].text
       /\ replay.carried[i] # 0 =>
            /\ replay.a.transcripts[i].id = replay.carried[i]
            /\ replay.b.transcripts[i].id = replay.carried[i]

\* Both runs have finalized an entry for an event with an id and an entry for
\* an event without one, and differ in the id of the latter.
C16_Witness ==
  /\ Len(replay.carried) = 2 /\ replay.carried[1] # 0 /\ replay.carried[2] = 0
  /\ replay.a.transcripts[1] = replay.b.transcripts[1]
  /\ replay.a.transcripts[2].id # replay.b.transcripts[2].id

\* ---- grouping: properties ----------------------------------------------
RECURSIVE Flatten(_)
Flatten(seqs) == IF seqs = <<>> THEN <<>> ELSE Head(seqs) \o Flatten(Tail(seqs))

RECURSIVE JoinTexts(_)
JoinTexts(items) ==
  IF Len(items) = 1 THEN items[1].text
  ELSE items[1].text \o <<" ">> \o JoinTexts(Tail(items))

\* The groups are the maximal runs of consecutive same-speaker segments of
\* list: their segments, concatenated in order, are list; adjacent finalized
\* groups differ in speaker; a group's text is its segments' texts joined;
\* a provisional item is alone in its group.
GroupsAreRuns(list, groups) ==
  /\ Flatten([k \in 1..Len(groups) |-> groups[k].segments]) = list
  /\ \A k \in 1..Len(groups) :
       /\ groups[k].segments # <<>>
       /\ \A i \in 1..Len(groups[k].segments) :
            /\ groups[k].segments[i].speaker = groups[k].speaker
            /\ groups[k].segments[i].isPartial => Len(groups[k].segments) = 1
       /\ groups[k].text = JoinTexts(groups[k].segments)
  /\ \A k \in 1..(Len(groups) - 1) :
       (~groups[k].isPartial /\ ~groups[k + 1].isPartial)
         => groups[k].speaker # groups[k + 1].speaker

\* C18: the groups made of the list the live view renders are the maximal
\* runs of that list, every item in exactly one group, in order.
C18_GroupsAreRuns == GroupsAreRuns(displayTranscripts, groupConsecutiveSpeakers(displayTranscripts))

\* C18, for a list without a provisional item: the groups are its maximal
\* runs.
C18_FinalizedGroupsAreRuns ==
  (partialTranscript = <<>> \/ ~isStreaming) => C18_GroupsAreRuns

\* C18: a list of finalized entries followed by the provisional item yields
\* the last finalized group twice, before and after the provisional group.
C18_LastGroupTwice ==
  (transcripts # <<>> /\ partialTranscript # <<>> /\ isStreaming) =>
    LET groups == groupConsecutiveSpeakers(displayTranscripts)
    IN  /\ Len(groups) >= 3
        /\ groups[Len(groups)] = groups[Len(groups) - 2]
        /\ groups[Len(groups) - 1].isPartial

\* ---- the batch view: properties ----------------------------------------
\* The groups TranscriptDisplay renders for the batch result.
BatchGroups == groupConsecutiveSpeakers(result.transcripts)

\* The segment of the response an item of the result was made from.
Reported(item) == response[item.id.n + 1]

\* The time shown is the time reported: the same number, or both absent.
SameTime(shown, reported) ==
  IF reported.kind = "number" THEN shown = reported
  ELSE shown.kind \in {"null", "undefined"}

\* C19: every group of the batch result has the start time the server
\* reported for its first segment and the end time reported for its last
\* segment, and a group whose first segment was reported at 0 seconds is
\* shown with the timestamp 0:00.
C19_GroupTimesKept ==
  result.set =>
    \A k \in 1..Len(BatchGroups) :
      LET group == BatchGroups[k]
          first == Reported(group.segments[1])
          last  == Reported(group.segments[Len(group.segments)])
      IN  /\ SameTime(group.start_time, first.start_time)
          /\ SameTime(group.end_time, last.end_time)
          /\ first.start_time = JsNum(0) => formatTimestamp(group.start_time) = JsStr("0:00")

\* C19, for responses without a start time of 0: the groups keep the times
\* reported.
C19_NonZeroTimesKept ==
  (\A i \in 1..Len(response) : response[i].start_time # JsNum(0)) => C19_GroupTimesKept

\* C19: a group whose first segment was reported at 0 seconds has no start
\* time and is shown without a timestamp.
C19_ZeroStartLost ==
  result.set =>
    \A k \in 1..Len(BatchGroups) :
      Reported(BatchGroups[k].segments[1]).start_time = JsNum(0) =>
        /\ BatchGroups[k].start_time = JsUndefined
        /\ formatTimestamp(BatchGroups[k].start_time) = JsNull

\* The number of adjacent pairs of segs with different labels.
DifferingPairs(segs) ==
  Cardinality({i \in 1..(Len(segs) - 1) : segs[i].speaker # segs[i + 1].speaker})

\* The response to a request with merge_speakers has the segments diarized,
\* in order, with their texts and times, all relabelled "Speaker 1" if
\* relabel and with their labels otherwise.
MergedAs(relabel) ==
  /\ Len(response) = Len(diarized)
  /\ \A i \in 1..Len(diarized) :
       /\ response[i].text = diarized[i].text
       /\ response[i].start_time = diarized[i].start_time
       /\ response[i].end_time = diarized[i].end_time
       /\ response[i].speaker = IF relabel THEN "Speaker 1" ELSE diarized[i].speaker

\* C20: the merge relabels all n segments if and only if n >= 2 and the t
\* differing pairs are more than 40% of the n - 1 pairs, and otherwise
\* changes nothing.
C20_MergeByPairRate ==
  (result.set /\ upload.merge_speakers) =>
    MergedAs(Len(diarized) >= 2 /\ 5 * DifferingPairs(diarized) > 2 * (Len(diarized) - 1))

\* C20, with the rate the README documents: the merge relabels all n
\* segments if and only if the t differing pairs are more than 40% of n.
C20_MergeBySegmentRate ==
  (result.set /\ upload.merge_speakers) =>
    MergedAs(5 * DifferingPairs(diarized) > 2 * Len(diarized))

\* C20: A,B,A,B,A is relabelled, A,A,A,B,B is not, and a single segment is
\* not.
C20_Examples ==
  (result.set /\ upload.merge_speakers) =>
    LET labels == [i \in 1..Len(diarized) |-> diarized[i].speaker]
    IN  /\ labels = <<"A", "B", "A", "B", "A">> => MergedAs(TRUE)
        /\ labels = <<"A", "A", "A", "B", "B">> => MergedAs(FALSE)
        /\ Len(labels) = 1 => MergedAs(FALSE)

\* ---- the manual merge: properties --------------------------------------
\* res with every segment relabelled "Speaker 1" and a speaker count of 1,
\* and nothing else changed.
Relabelled(res, merged) ==
  /\ merged.set
  /\ merged.speakerCount = 1
  /\ Len(merged.transcripts) = Len(res.transcripts)
  /\ \A i \in 1..Len(res.transcripts) :
       /\ merged.transcripts[i].speaker = "Speaker 1"
       /\ \A f \in (DOMAIN res.transcripts[i]) \ {"speaker"} :
            merged.transcripts[i][f] = res.transcripts[i][f]
  /\ merged.summary = res.summary
  /\ merged.fullText = res.fullText
  /\ merged.duration = res.duration

\* C21: a click on the merge button leaves a result whose segments all carry
\* "Speaker 1", with speakerCount 1 and with the segments' number, order,
\* ids, texts and times, the summary, the full text and the duration as
\* before, and changes nothing else; mergeAllSpeakers applied to its own
\* output changes nothing, and applied to no result gives no result.
C21_MergeAllRelabels ==
  /\ [](/\ result.set => Relabelled(result, mergeAllSpeakers(result))
        /\ mergeAllSpeakers(mergeAllSpeakers(result)) = mergeAllSpeakers(result)
        /\ mergeAllSpeakers(NoResult) = NoResult)
  /\ [][MergeAllSpeakers =>
          /\ Relabelled(result, result')
          /\ UNCHANGED <<loading, fileError, mergeSpeakers, upload>>]_vars

\* The result of a response with two labels, all relabelled.
C21_Witness ==
  /\ result.set /\ result.speakerCount = 1 /\ Len(result.transcripts) >= 3
  /\ \E i, j \in 1..Len(response) : response[i].speaker # response[j].speaker
  /\ \A i \in 1..Len(result.transcripts) : result.transcripts[i].speaker = "Speaker 1"

\* ---- failed starts: properties -----------------------------------------
\* C22: when startStreaming fails after getUserMedia resolved, the catch
\* block leaves the microphone tracks of that call stopped and no socket of
\* that call connecting or open.
C22_FailedStartReleases ==
  [][\A s \in Sessions, at \in {"context", "socket"} :
       StartStreamingThrows(s, at) =>
         /\ mounted => (error' = MicFailed /\ status' = "Error")
         /\ sess'[s].tracks # "live"
         /\ sess'[s].ws \notin {"CONNECTING", "OPEN"}]_vars

\* C22: what the catch block leaves: the error is set, no socket was made,
\* and the microphone tracks of the call are live.
C22_FailedStartKeepsMicrophone ==
  [][\A s \in Sessions, at \in {"context", "socket"} :
       StartStreamingThrows(s, at) =>
         /\ mounted => (error' = MicFailed /\ status' = "Error")
         /\ sess'[s].tracks = "live"
         /\ sess'[s].ws = "none"]_vars

\* ---- microphone tracks: properties -------------------------------------
\* stopStreaming has run and the Waveform has run its effect for what the
\* component renders since, its AudioContext closed.
StoppedAndCleanedUp ==
  /\ status = "Stopped" /\ ~isStreaming
  /\ <<waveform.isActive, waveform.stream>> = <<isStreaming, streamRef>>
  /\ waveform.ctx # "running"

\* C23: once stopStreaming and the Waveform cleanup have run, no track of
\* the microphone is live, neither of the stream of a session nor of the
\* clone a Waveform made of it.
C23_NoLiveTrackAfterStop ==
  (StoppedAndCleanedUp /\ \A s \in Sessions : sess[s].call # "awaiting") =>
    \A s \in Sessions : sess[s].tracks # "live" /\ sess[s].clone # "live"

\* C23: no step ends the tracks of a clone.
C23_CloneStaysLive ==
  [][\A s \in Sessions : sess[s].clone = "live" => sess'[s].clone = "live"]_vars
\* The three conditions onstop rejects a recording for.
FailsValidation(chunks, short) ==
  \/ Len(chunks) = 0
  \/ BlobSize(chunks) < MinBlobSize
  \/ short

\* C24: a recording that fails the validation of onstop (no chunk in the
\* buffer, a blob under 1000 bytes, or a duration under 0.5 s) is rejected
\* before a request exists: the step posts nothing, sets the error message,
\* sets status to Error and leaves the transcript list alone; and no POST is
\* ever made for a rejected recording.
C24_RejectedBeforeRequest ==
  /\ [](\A r \in Recordings :
          recorders[r].onstop = "rejected" =>
            r \notin posts)
  /\ [][\A r \in Recordings, short \in BOOLEAN :
          (OnStopAfterWait(r, short) /\ FailsValidation(rec.audioChunksRef, short)) =>
            /\ posts' = posts
            /\ recorders'[r].onstop = "rejected"
            /\ rec'.error \in {NoChunks, TooSmall, TooShort}
            /\ rec'.status = "Error"
            /\ rec'.transcripts = rec.transcripts]_vars

\* A recording with audio enough was rejected for its duration, and no
\* request was made.
C24_Witness ==
  \E r \in Recordings :
    /\ recorders[r].onstop = "rejected"
    /\ rec.error = TooShort /\ rec.status = "Error"
    /\ rec.delivered = MaxChunks /\ posts = {}

\* C25: a request in reference mode goes out with reference files only if it
\* carries exactly one reference file per speaker name, in the order of the
\* names; a form whose counts differ is not posted.
C25_OneFilePerName ==
  (upload.endpoint = "/transcribe/advanced" /\ upload.reference_files # <<>>) =>
    LET names == NamesOf(upload.speaker_names)
    IN  /\ Len(upload.reference_files) = Len(names)
        /\ \A i \in 1..Len(names) : FileMatches(upload.reference_files[i], names[i])

\* What does hold: the files attached are the matched files of fileMapping,
\* at most one per entry of the mapping.
C25_MatchedFilesOnly ==
  [][HandleFileUpload =>
       /\ upload'.reference_files \in {<<>>, OrderedFiles(ident.fileMapping)}
       /\ Len(upload'.reference_files) <= Len(ident.fileMapping)]_vars

\* C28: whenever fileMapping is non-empty its speaker entries are the current
\* speaker names in order, whatever the order of choosing files and editing
\* names.
C28_MappingFollowsNames ==
  Len(ident.fileMapping) > 0 =>
    [i \in 1..Len(ident.fileMapping) |-> ident.fileMapping[i].speaker]
      = NamesOf(ident.speakerNames)

\* What does hold: the mapping is the match of some selection against the
\* names the field had when the mapping was last computed, and editing the
\* names re-matches only the files kept in referenceFiles.
C28_RematchOnlyStoredFiles ==
  [][\A text \in NameTexts :
       EditSpeakerNames(text) =>
         IF Len(ident.referenceFiles) > 0
         THEN ident'.fileMapping = matchFilesToSpeakers(ident.referenceFiles, NamesOf(text)).matched
         ELSE ident'.fileMapping = ident.fileMapping]_vars

\* A session that exists (its socket was made) and has sent no audio frame.
EmptySession(s) == sess[s].ws # "none" /\ sess[s].sent = 0

\* C26: when the client stops, a session that has sent no audio frame, the
\* server having sent no completed event, has produced no finalized
\* transcript and ends closed: its resources released, isStreaming false,
\* status Stopped and no error set.
C26_EmptySessionEndsClean ==
  [][\A s \in Sessions :
       (StopStreaming /\ EmptySession(s) /\ nCompleted = 0) =>
         /\ Len(transcripts') = 0
         /\ Released(s)'
         /\ ~isStreaming' /\ status' = "Stopped"
         /\ error' = NoError]_vars

\* What does hold: the session the refs hold is released by the stop, nothing
\* is finalized, and the stop leaves error as it was.
C26_HeldSessionReleased ==
  [][\A s \in Sessions :
       (StopStreaming /\ EmptySession(s) /\ nCompleted = 0
          /\ wsRef = s /\ streamRef = s /\ audioContextRef = s /\ processorRef = s) =>
         /\ Len(transcripts') = 0
         /\ Released(s)'
         /\ ~isStreaming' /\ status' = "Stopped"
         /\ error' = error]_vars

\* The colours TranscriptDisplay gives the entries of a list.
Colours(list) == [i \in 1..Len(list) |-> getSpeakerColor(list[i].speaker)]

\* The two label sets the palette is sized for.
LetterLabels == {"A", "B", "C", "D", "E", "F"}

NumberLabels ==
  {"Speaker 1", "Speaker 2", "Speaker 3", "Speaker 4", "Speaker 5", "Speaker 6"}

\* C27: the colour is a function of the label with a palette index in 0..5,
\* and any two entries of one transcript with different speaker labels are
\* given different colours.
C27_DistinctColours ==
  result.set =>
    /\ \A i \in 1..Len(result.transcripts) :
          Colours(result.transcripts)[i] \in {SPEAKER_COLORS[k] : k \in 1..Len(SPEAKER_COLORS)}
    /\ \A i, j \in 1..Len(result.transcripts) :
          result.transcripts[i].speaker # result.transcripts[j].speaker =>
            Colours(result.transcripts)[i] # Colours(result.transcripts)[j]

\* What does hold: every entry's colour is one of the six of the palette,
\* entries with one label have one colour, and two different labels of A..F,
\* or of Speaker 1..Speaker 6, have different colours.
C27_DistinctWithinSixLabels ==
  result.set =>
    LET list == result.transcripts
    IN  /\ \A i \in 1..Len(list) : Colours(list)[i] \in {SPEAKER_COLORS[k] : k \in 1..Len(SPEAKER_COLORS)}
        /\ \A i, j \in 1..Len(list) :
              /\ list[i].speaker = list[j].speaker => Colours(list)[i] = Colours(list)[j]
              /\ ( /\ list[i].speaker # list[j].speaker
                   /\ \/ {list[i].speaker, list[j].speaker} \subseteq LetterLabels
                      \/ {list[i].speaker, list[j].speaker} \subseteq NumberLabels )
                   => Colours(list)[i] # Colours(list)[j]

\* C30: when the onstop of a recording takes the buffer after its 200 ms
\* wait, to validate and upload it, the buffer holds exactly the chunks that
\* recording's MediaRecorder delivered, in order: none of another recording,
\* none erased.
C30_OwnChunksOnly ==
  [][\A r \in Recordings, short \in BOOLEAN :
       OnStopAfterWait(r, short) => rec.audioChunksRef = recorders[r].produced]_vars

\* What does hold: a recording no other startRecording call overlaps with
\* is uploaded whole.
C30_AloneIsWhole ==
  [][\A r \in Recordings, short \in BOOLEAN :
       (OnStopAfterWait(r, short)
          /\ \A other \in Recordings \ {r} : recorders[other].call = "idle") =>
         rec.audioChunksRef = recorders[r].produced]_vars

\* The onstop run of recording r is between setLoading(true) and its finally.
Processes(r) == recorders[r].onstop \in {"waiting", "fetching"}

\* C29: provided the timer fires and the fetch settles, every onstop run and
\* every handleFileUpload run that set loading comes to its end on every
\* outcome and sets loading to false there, so loading is never true for
\* good; the onstop run empties the chunk buffer in the same step.
C29_LoadingReset ==
  /\ rec.loading ~> ~rec.loading
  /\ loading ~> ~loading
  /\ [](rec.loading => \E r \in Recordings : Processes(r))
  /\ [][\A r \in Recordings :
          (Processes(r) /\ ~Processes(r)') =>
            (~rec'.loading /\ rec'.audioChunksRef = <<>>)]_vars
  /\ [][(upload.pending /\ ~upload'.pending) => ~loading']_vars

\* Runs have ended with loading reset: one recording was rejected by the
\* validation, and the fetch of another settled with an HTTP error status.
C29_Witness ==
  /\ \E r \in Recordings : recorders[r].onstop = "rejected"
  /\ \E r \in Recordings : recorders[r].onstop = "done"
  /\ ~rec.loading /\ rec.error = "Upload failed: Bad Request"


\* C31: in FileTranscription result and error are never both set; a started
\* upload clears both, a finished upload leaves exactly one of them set, and
\* the speakerCount of a result is the number of distinct speaker labels of
\* its transcripts, also after mergeAllSpeakers.
DistinctLabels(res) ==
  Cardinality({res.transcripts[i].speaker : i \in 1..Len(res.transcripts)})

C31_ResultXorError ==
  /\ [](/\ ~(result.set /\ fileError # NoError)
        /\ result.set => result.speakerCount = DistinctLabels(result))
  /\ [][/\ (~upload.pending /\ upload'.pending)
              => (~result'.set /\ fileError' = NoError)
        /\ (upload.pending /\ ~upload'.pending)
              => (result'.set # (fileError' # NoError))]_vars

\* A result of two differently labelled segments after mergeAllSpeakers.
C31_Witness ==
  /\ result.set /\ fileError = NoError
  /\ Len(response) = 2 /\ response[1].speaker # response[2].speaker
  /\ result.speakerCount = 1

\* C32: matchFilesToSpeakers returns one entry per speaker name, in the order
\* of the names; no file is assigned to two speakers; an entry with matched =
\* true carries a file (not null) whose base name contains the lower-cased
\* name or is contained in it; and every input file is in exactly one matched
\* entry or in unmatchedFiles, never both and never neither.
MatchingSound(files, names) ==
  LET m == matchFilesToSpeakers(files, names).matched
      u == matchFilesToSpeakers(files, names).unmatchedFiles
  IN  /\ Len(m) = Len(names)
      /\ \A i \in 1..Len(m) : m[i].speaker = names[i]
      /\ \A i, j \in 1..Len(m) :
           (i # j /\ m[i].matched /\ m[j].matched) => m[i].file # m[j].file
      /\ \A i \in 1..Len(m) :
           m[i].matched =>
             /\ m[i].file # NoFile
             /\ \/ includes(fileBaseName(m[i].file), toLowerCase(names[i]))
                \/ includes(toLowerCase(names[i]), fileBaseName(m[i].file))
      /\ \A k \in 1..Len(files) :
           Cardinality({i \in 1..Len(m) : m[i].matched /\ m[i].file = files[k]})
             + Cardinality({j \in 1..Len(u) : u[j].file = files[k]}) = 1

C32_MatchPartitionsFiles ==
  /\ \A files \in MatchInputs.selections, text \in MatchInputs.texts :
       MatchingSound(files, NamesOf(text))
  /\ Len(ident.fileMapping) > 0 =>
       \E files \in MatchInputs.selections, text \in MatchInputs.texts :
         ident.fileMapping = matchFilesToSpeakers(files, NamesOf(text)).matched

\* The mapping shown is a match that found a file for one name and none for
\* another, and left a file unmatched.
C32_Witness ==
  /\ \E i \in 1..Len(ident.fileMapping) : ident.fileMapping[i].matched
  /\ \E i \in 1..Len(ident.fileMapping) : ~ident.fileMapping[i].matched
  /\ \E files \in MatchInputs.selections :
       /\ ident.fileMapping
            = matchFilesToSpeakers(files, NamesOf(ident.speakerNames)).matched
       /\ Len(matchFilesToSpeakers(files, NamesOf(ident.speakerNames)).unmatchedFiles) > 0

====
